---- MODULE Spec2Model ----
(***************************************************************************)
(* A model of the artnet_led_controller library: the fixture registry      *)
(* (fixture.py), device discovery (discovery.py), the pattern generators   *)
(* and the slicer (patterns.py), the Art-Net transmitter (artnet.py) and   *)
(* the controller's pattern loop, blackout and shutdown (controller.py).   *)
(***************************************************************************)
EXTENDS Integers, Sequences, FiniteSets, TLC

VARIABLES
    fixtures,       \* FixtureManager.fixtures: the ordered list of Fixture records
    added,          \* the latest add_fixture call: its arguments, the registry before
    disc,           \* discovery: where it is, the replies received, the list built
    pattern,        \* the pattern object: kind, total_pixels, step, parameters
    frame_data,     \* the frame most recently returned by a generator
    gen,            \* the latest generator call: which, on what pattern state, how it ended
    sliced,         \* the latest get_fixture_data call: its argument, the registry it read
    fixtures_data,  \* the list most recently returned by get_fixture_data
    sock,           \* ArtNetSender._socket: "None" or "open"
    os_sockets,     \* number of UDP sockets created and not yet closed
    pc,             \* "idle", or "smf_loop" inside send_multiple_fixtures
    call,           \* the sender call in progress or last finished, with its inputs
    outcomes,       \* per entry handled by that call: "sent", "send_error", "encode_error"
    wire,           \* datagrams that call handed to sock.sendto without an error
    ret,            \* what that call returned: "none", "True", "False", "raised"
    next_calls,     \* next_frame calls made since the last reset or construction
    ctl,            \* the controller methods in progress, outermost first
    run,            \* run_pattern: its arguments, its locals and how it ended
    now,            \* time.time(), in units of the frame delay
    cret            \* the controller method that ended last, and how

registryVars   == <<fixtures, added, disc>>
patternVars    == <<pattern, frame_data, gen, sliced, fixtures_data, next_calls>>
senderVars     == <<sock, os_sockets, pc, call, outcomes, wire, ret>>
controllerVars == <<ctl, run, now, cret>>
vars == <<fixtures, added, disc, pattern, frame_data, gen, sliced, fixtures_data, next_calls,
          sock, os_sockets, pc, call, outcomes, wire, ret,
          ctl, run, now, cret>>

(***************************************************************************)
(* Bounds of the model.                                                    *)
(***************************************************************************)
MaxBatch == 3          \* entries in one send_multiple_fixtures batch
MaxFixtures == 3       \* fixtures in the registry
MaxPixelCount == 3     \* largest pixel_count given to add_fixture
MaxStep == 6           \* next_frame is not called once step reaches this
MaxFrames == 3         \* run_pattern starts no tick after this many frames
MaxTime == 3           \* the clock stops here
MaxReplies == 3        \* replies one discovery receives

(***************************************************************************)
(* constants.py                                                            *)
(***************************************************************************)
ARTNET_PORT == 6454
ARTNET_PROTOCOL_VERSION == 14
ARTNET_OPCODE_DMX == 20480      \* 0x5000
BLACK == <<0, 0, 0>>
WHITE == <<255, 255, 255>>

(***************************************************************************)
(* struct.pack('>8sHHBBBBH', ...) and bytes(...)                           *)
(***************************************************************************)
\* b'Art-Net\0'
ArtNetId == <<65, 114, 116, 45, 78, 101, 116, 0>>

\* One 'H' field, big-endian.
PackH(n) == <<n \div 256, n % 256>>

\* universe & 0xFF and (universe >> 8) & 0xFF on Python integers
UniverseLowMutHigh(universe) == (universe \div 256) % 256
UniverseLow(universe) == universe % 256
UniverseHigh(universe) == (universe \div 256) % 256

\* struct.pack raises struct.error when an 'H' argument is outside 0..65535 or
\* a 'B' argument is outside 0..255.
StructPackOk(ulow, uhigh, length) ==
    /\ ulow \in 0..255
    /\ uhigh \in 0..255
    /\ length \in 0..65535

StructPackMutNoId(ulow, uhigh, length) ==
    <<65, 114, 116, 0>> \o PackH(ARTNET_OPCODE_DMX) \o PackH(ARTNET_PROTOCOL_VERSION)
        \o <<0, 0, ulow, uhigh>> \o PackH(length)
StructPackMutLen(ulow, uhigh, length) ==
    ArtNetId \o PackH(ARTNET_OPCODE_DMX) \o PackH(ARTNET_PROTOCOL_VERSION)
        \o <<0, 0, ulow, uhigh>> \o PackH((length \div 3) * 3)
StructPack(ulow, uhigh, length) ==
    ArtNetId \o PackH(ARTNET_OPCODE_DMX) \o PackH(ARTNET_PROTOCOL_VERSION)
        \o <<0, 0, ulow, uhigh>> \o PackH(length)

\* bytes(pixel_data) raises ValueError unless every element is in range(256).
BytesOk(pixel_data) == \A i \in 1..Len(pixel_data) : pixel_data[i] \in 0..255

\* The try-block of both send functions up to the sendto: the datagram, or the
\* exception raised while building it.
EncodeError == [ok |-> FALSE, data |-> <<>>]
Encode(universe, pixel_data) ==
    LET universe_low == UniverseLow(universe)
        universe_high == UniverseHigh(universe)
        n == Len(pixel_data)
    IN  IF ~StructPackOk(universe_low, universe_high, n) THEN EncodeError
        ELSE IF ~BytesOk(pixel_data) THEN EncodeError
        ELSE [ok |-> TRUE,
              data |-> StructPack(universe_low, universe_high, n) \o pixel_data]

(***************************************************************************)
(* The network.  sendto raises for an address that does not resolve, and   *)
(* may raise for any address (unreachable host, full buffer).              *)
(***************************************************************************)
ValidIps == {"192.168.1.100", "10.0.2.5"}
Ips == ValidIps \cup {"not-an-ip"}

SendtoOk(ip, net_ok) == net_ok /\ ip \in ValidIps

\* What sock.sendto(payload, (ip, ARTNET_PORT)) is given; `entry` records which
\* entry of the call it was built from (1 for send_dmx_data).
Datagram(ip, data, entry) ==
    [ip |-> ip, port |-> ARTNET_PORT, data |-> data, entry |-> entry]

(***************************************************************************)
(* ArtNetSender                                                            *)
(***************************************************************************)
\* ArtNetSender._get_socket: whether it must create a socket.
NeedsSocketMutAlways == TRUE
NeedsSocket == sock = "None"

\* No call is in progress: a method of the library can be called.
Idle == pc = "idle" /\ ctl = <<>>

\* send_dmx_data: everything, _get_socket included, runs inside one try whose
\* handler logs and returns False; `have` says the socket was obtained, `sent`
\* that sendto returned.
DmxReturnMutRaise(have, sent) ==
    IF sent THEN "True" ELSE IF have THEN "False" ELSE "raised"
DmxReturn(have, sent) == IF sent THEN "True" ELSE "False"

SendDmxData(ip, universe, pixel_data, sock_ok, net_ok) ==
    /\ Idle
    /\ LET enc == Encode(universe, pixel_data)
           have == ~NeedsSocket \/ sock_ok
           sent == have /\ enc.ok /\ SendtoOk(ip, net_ok)
       IN  /\ call' = [op |-> "send_dmx_data", ip |-> ip, universe |-> universe,
                       pixel_data |-> pixel_data, sock_failed |-> ~have]
           /\ sock' = IF have THEN "open" ELSE sock
           /\ os_sockets' = IF NeedsSocket /\ sock_ok THEN os_sockets + 1
                            ELSE os_sockets
           /\ outcomes' = IF ~have THEN <<>>
                          ELSE IF ~enc.ok THEN <<"encode_error">>
                          ELSE IF sent THEN <<"sent">> ELSE <<"send_error">>
           /\ wire' = IF sent THEN <<Datagram(ip, enc.data, 1)>> ELSE <<>>
           /\ ret' = DmxReturn(have, sent)
    /\ UNCHANGED <<pc, registryVars, patternVars, controllerVars>>

\* send_multiple_fixtures, entry: success = True; sock = self._get_socket(),
\* outside any try, so a failure to create the socket leaves the function.
SmfEnter(batch, sock_ok) ==
    /\ pc = "idle"
    /\ LET have == ~NeedsSocket \/ sock_ok
       IN  /\ call' = [op |-> "send_multiple_fixtures", batch |-> batch,
                       i |-> 1, success |-> TRUE, sock_failed |-> ~have]
           /\ sock' = IF have THEN "open" ELSE sock
           /\ os_sockets' = IF NeedsSocket /\ sock_ok THEN os_sockets + 1
                            ELSE os_sockets
           /\ pc' = IF have THEN "smf_loop" ELSE "idle"
           /\ ret' = IF have THEN "none" ELSE "raised"
    /\ outcomes' = <<>>
    /\ wire' = <<>>

\* send_multiple_fixtures called on the sender directly
SmfCall(batch, sock_ok) ==
    /\ Idle
    /\ SmfEnter(batch, sock_ok)
    /\ UNCHANGED <<registryVars, patternVars, controllerVars>>

\* One iteration of its for loop: the try around pack, bytes and sendto, whose
\* handler sets success = False and goes on with the next entry.
SmfOutcome(entry, net_ok) ==
    LET enc == Encode(entry.fixture.universe, entry.pixel_data)
    IN  IF ~enc.ok THEN "encode_error"
        ELSE IF SendtoOk(entry.fixture.ip, net_ok) THEN "sent" ELSE "send_error"

SmfSend(net_ok) ==
    /\ pc = "smf_loop"
    /\ call.i <= Len(call.batch)
    /\ LET entry == call.batch[call.i]
           out == SmfOutcome(entry, net_ok)
       IN  /\ outcomes' = Append(outcomes, out)
           /\ wire' = IF out = "sent"
                      THEN Append(wire,
                               Datagram(entry.fixture.ip,
                                   Encode(entry.fixture.universe, entry.pixel_data).data,
                                   call.i))
                      ELSE wire
           /\ call' = [call EXCEPT !.i = @ + 1,
                                   !.success = IF out = "sent" THEN @ ELSE FALSE]
    /\ UNCHANGED <<pc, ret, sock, os_sockets, registryVars, patternVars,
                   controllerVars>>

\* The loop is exhausted: return success.
SmfReturn ==
    /\ pc = "smf_loop"
    /\ call.i > Len(call.batch)
    /\ ret' = IF call.success THEN "True" ELSE "False"
    /\ pc' = "idle"
    /\ UNCHANGED <<call, outcomes, wire, sock, os_sockets, registryVars, patternVars,
                   controllerVars>>

\* close
Close ==
    /\ Idle
    /\ sock' = "None"
    /\ os_sockets' = IF sock = "open" THEN os_sockets - 1 ELSE os_sockets
    /\ call' = [op |-> "close", released |-> sock = "open"]
    /\ outcomes' = <<>>
    /\ wire' = <<>>
    /\ ret' = "none"
    /\ UNCHANGED <<pc, registryVars, patternVars, controllerVars>>

(***************************************************************************)
(* Fixture and FixtureManager                                              *)
(***************************************************************************)
\* Fixture.__post_init__: the default name is f"Fixture-{ip}".
Fixture(ip, pixel_count, universe, name) ==
    [ip |-> ip, pixel_count |-> pixel_count, universe |-> universe,
     name |-> IF name = "None" THEN <<"Fixture-", ip>> ELSE name]

\* Fixture.channel_count
ChannelCount(fixture) == fixture.pixel_count * 3

\* FixtureManager.get_total_pixels: sum of pixel_count over the fixtures
RECURSIVE SumPixels(_)
SumPixels(fs) ==
    IF fs = <<>> THEN 0 ELSE fs[1].pixel_count + SumPixels(Tail(fs))
GetTotalPixels == SumPixels(fixtures)

\* add_fixture has not been called.
NotAdded == [called |-> FALSE]

\* FixtureManager.clear
Clear ==
    /\ Idle
    /\ fixtures' = <<>>
    /\ UNCHANGED <<added, disc, patternVars, senderVars, controllerVars>>

(***************************************************************************)
(* Universe assignment from the address                                    *)
(***************************************************************************)
\* The characters of the address strings the model uses.
Chars(ip) ==
    CASE ip = "192.168.1.100" ->
            <<"1", "9", "2", ".", "1", "6", "8", ".", "1", ".", "1", "0", "0">>
      [] ip = "10.0.2.5" ->
            <<"1", "0", ".", "0", ".", "2", ".", "5">>
      [] ip = "not-an-ip" ->
            <<"n", "o", "t", "-", "a", "n", "-", "i", "p">>
      [] ip = "wled-1.local" ->
            <<"w", "l", "e", "d", "-", "1", ".", "l", "o", "c", "a", "l">>
      [] ip = "10.0.0." ->
            <<"1", "0", ".", "0", ".", "0", ".">>
      [] ip = "7" ->
            <<"7">>
      [] ip = "10.0.0.+5" ->
            <<"1", "0", ".", "0", ".", "0", ".", "+", "5">>
      [] ip = "172.16.0.1_0" ->
            <<"1", "7", "2", ".", "1", "6", ".", "0", ".", "1", "_", "0">>
      [] ip = "10.0.0.-4" ->
            <<"1", "0", ".", "0", ".", "0", ".", "-", "4">>
      [] ip = "10.0.0.0x1F" ->
            <<"1", "0", ".", "0", ".", "0", ".", "0", "x", "1", "F">>

\* ip.split('.')[-1]: what follows the last '.', the whole string when there
\* is none; split never returns an empty list, so IndexError cannot occur.
RECURSIVE LastComponent(_)
LastComponent(s) ==
    IF s = <<>> THEN <<>>
    ELSE IF s[Len(s)] = "." THEN <<>>
    ELSE Append(LastComponent(SubSeq(s, 1, Len(s) - 1)), s[Len(s)])

DecimalDigits == <<"0", "1", "2", "3", "4", "5", "6", "7", "8", "9">>
IsDigit(c) == \E d \in 1..10 : DecimalDigits[d] = c
DigitValue(c) == (CHOOSE d \in 1..10 : DecimalDigits[d] = c) - 1

\* The value of a run of decimal digits; underscores between digits are
\* ignored.
RECURSIVE DigitsValue(_)
DigitsValue(s) ==
    IF s = <<>> THEN 0
    ELSE IF s[Len(s)] = "_" THEN DigitsValue(SubSeq(s, 1, Len(s) - 1))
    ELSE 10 * DigitsValue(SubSeq(s, 1, Len(s) - 1)) + DigitValue(s[Len(s)])

\* What int() accepts after the sign: digits, with single underscores
\* between them.
IsIntLiteral(s) ==
    /\ s # <<>>
    /\ IsDigit(s[1]) /\ IsDigit(s[Len(s)])
    /\ \A k \in 1..Len(s) : IsDigit(s[k]) \/ s[k] = "_"
    /\ \A k \in 1..(Len(s) - 1) : ~(s[k] = "_" /\ s[k + 1] = "_")

\* str.strip() of blanks, as int() does before parsing
RECURSIVE Strip(_)
Strip(s) ==
    IF s = <<>> THEN s
    ELSE IF s[1] = " " THEN Strip(Tail(s))
    ELSE IF s[Len(s)] = " " THEN Strip(SubSeq(s, 1, Len(s) - 1))
    ELSE s

\* int(s) for a str: the value, or ValueError
PyInt(s) ==
    LET t == Strip(s)
        signed == t # <<>> /\ t[1] \in {"+", "-"}
        body == IF signed THEN Tail(t) ELSE t
    IN  IF ~IsIntLiteral(body) THEN [ok |-> FALSE, value |-> 0]
        ELSE [ok |-> TRUE,
              value |-> IF signed /\ t[1] = "-" THEN 0 - DigitsValue(body)
                        ELSE DigitsValue(body)]

\* FixtureManager._get_universe_from_ip, on a registry fs
GetUniverseFromIpMutZero(ip, fs) ==
    LET parsed == PyInt(LastComponent(Chars(ip)))
    IN  IF parsed.ok THEN parsed.value ELSE 0
GetUniverseFromIp(ip, fs) ==
    LET parsed == PyInt(LastComponent(Chars(ip)))
    IN  IF parsed.ok THEN parsed.value ELSE Len(fs)

\* FixtureManager.add_fixture as it is called: universe is <<>> for None
\* (the default), else <<u>>.  No argument is validated.
AddFixtureCall(ip, pixel_count, name, universe) ==
    /\ Idle
    /\ Len(fixtures) < MaxFixtures
    /\ LET u == IF universe = <<>> THEN GetUniverseFromIp(ip, fixtures)
                ELSE universe[1]
       IN  fixtures' = Append(fixtures, Fixture(ip, pixel_count, u, name))
    /\ added' = [called |-> TRUE, ip |-> ip, pixel_count |-> pixel_count,
                 universe |-> universe, before |-> fixtures,
                 fixture |-> fixtures'[Len(fixtures')]]
    /\ UNCHANGED <<disc, patternVars, senderVars, controllerVars>>

(***************************************************************************)
(* WLEDDiscovery and ArtNetController.discover_fixtures                    *)
(***************************************************************************)
\* What a reply datagram holds: bytes that are not UTF-8, text that is not
\* JSON, or a JSON value.  A JSON value carries its type; of an object, the
\* members the library reads: 'name' ("None" when absent) and 'leds'.
BadBytes == [kind |-> "bytes"]
BadText == [kind |-> "text"]
Json(value) == [kind |-> "json", value |-> value]

JAbsent == [type |-> "absent"]
JNumber == [type |-> "number"]
JArray == [type |-> "array"]
\* {"count": n} and {}
JLeds(count) == [type |-> "object", count |-> count]
JObject(name, leds) == [type |-> "object", name |-> name, leds |-> leds]

\* json.loads(data.decode('utf-8')): the value, or UnicodeDecodeError or
\* JSONDecodeError
JsonLoads(data) ==
    IF data.kind = "json" THEN [ok |-> TRUE, info |-> data.value]
    ELSE [ok |-> FALSE, info |-> JAbsent]

\* info.get(...) raises AttributeError unless info is a dict
HasGet(value) == value.type = "object"

\* create_fixtures_from_discovery, for one device:
\* info.get('leds', {}).get('count', 60) and info.get('name', None)
DEFAULT_LED_COUNT == 60
InfoRaises(info) ==
    \/ ~HasGet(info)
    \/ info.leds.type # "absent" /\ ~HasGet(info.leds)
InfoPixelCount(info) ==
    IF info.leds.type = "absent" THEN DEFAULT_LED_COUNT
    ELSE IF info.leds.count = <<>> THEN DEFAULT_LED_COUNT
    ELSE info.leds.count[1]

\* create_fixtures_from_discovery: a new FixtureManager, one add_fixture per
\* device in the order of the replies, the universe taken from the address.
RECURSIVE CreateFixturesFrom(_, _)
CreateFixturesFrom(devices, manager) ==
    IF devices = <<>> THEN manager
    ELSE LET ip == devices[1].ip
             info == devices[1].info
         IN  CreateFixturesFrom(Tail(devices),
                 Append(manager,
                        Fixture(ip, InfoPixelCount(info),
                                GetUniverseFromIp(ip, manager), info.name)))

CreateRaises(devices) == \E k \in 1..Len(devices) : InfoRaises(devices[k].info)
CreateFixturesFromDiscovery(devices) == CreateFixturesFrom(devices, <<>>)

\* No discovery has been started.
NoDiscovery ==
    [op |-> "none", at |-> "idle", status |-> "none", cause |-> "none",
     replies |-> <<>>, recv_errors |-> 0, discovered |-> <<>>, before |-> <<>>]

\* discover_devices up to the listening loop, called directly or by
\* discover_fixtures: the socket is made and the broadcast sent inside a try
\* whose handler logs and raises again.
DiscoverStart(op, net_ok) ==
    /\ Idle
    /\ disc.at = "idle"
    /\ disc' = [op |-> op,
                at |-> IF net_ok THEN "listening" ELSE "idle",
                status |-> IF net_ok THEN "running" ELSE "raised",
                cause |-> IF net_ok THEN "none" ELSE "network",
                replies |-> <<>>, recv_errors |-> 0, discovered |-> <<>>,
                before |-> fixtures]
    /\ UNCHANGED <<fixtures, added, patternVars, senderVars, controllerVars>>

\* One reply arrives: decode, parse, append, log.  The handler of the inner
\* try logs and continues; the log line calls info.get after the append.
DiscoverRecv(ip, data) ==
    /\ disc.at = "listening"
    /\ Len(disc.replies) < MaxReplies
    /\ LET parsed == JsonLoads(data)
       IN  disc' = [disc EXCEPT
                       !.replies = Append(@, [ip |-> ip, data |-> data]),
                       !.discovered =
                           IF parsed.ok
                           THEN Append(@, [ip |-> ip, info |-> parsed.info])
                           ELSE @]
    /\ UNCHANGED <<fixtures, added, patternVars, senderVars, controllerVars>>

\* recvfrom raises an OSError other than a timeout (an ICMP error from an
\* unreachable host): logged, continue.
DiscoverRecvError ==
    /\ disc.at = "listening"
    /\ disc' = [disc EXCEPT !.recv_errors = @ + 1]
    /\ UNCHANGED <<fixtures, added, patternVars, senderVars, controllerVars>>

\* The socket times out or the time is up: discover_devices returns the
\* list.  discover_fixtures returns the registry as it is for an empty list;
\* otherwise it replaces self.fixture_manager by the manager that
\* create_fixtures_from_discovery builds, unless that raises.
DiscoverEnd ==
    /\ disc.at = "listening"
    /\ LET create == disc.op = "discover_fixtures" /\ disc.discovered # <<>>
           raises == create /\ CreateRaises(disc.discovered)
       IN  /\ disc' = [disc EXCEPT
                          !.at = "idle",
                          !.status = IF raises THEN "raised" ELSE "returned",
                          !.cause = IF raises THEN "reply" ELSE "none"]
           /\ fixtures' = IF create /\ ~raises
                          THEN CreateFixturesFromDiscovery(disc.discovered)
                          ELSE fixtures
    /\ UNCHANGED <<added, patternVars, senderVars, controllerVars>>

\* FixtureManager.add_fixture with an explicit universe
AddFixture(ip, pixel_count, name, universe) ==
    AddFixtureCall(ip, pixel_count, name, <<universe>>)

(***************************************************************************)
(* Patterns                                                                *)
(***************************************************************************)
NoPattern == [kind |-> "none"]

\* BasePattern.__init__ and the subclasses' __init__: total_pixels is read from
\* the registry once, here.
\* `params` holds the subclass's attributes: color, speed, or color, frequency
\* and amplitude.
MakePattern(kind, params) ==
    /\ Idle
    /\ pattern' = [kind |-> kind, total_pixels |-> GetTotalPixels, step |-> 0]
                       @@ params
    /\ next_calls' = 0
    /\ UNCHANGED <<frame_data, gen, sliced, fixtures_data, registryVars, senderVars,
                   controllerVars>>

\* list(t) * n and the data.extend loops: n copies of a tuple, none when n <= 0.
RECURSIVE Repeat(_, _)
Repeat(t, n) == IF n <= 0 THEN <<>> ELSE t \o Repeat(t, n - 1)

\* ChasePattern.generate_frame, after current_pixel was computed.
RECURSIVE ChaseFrom(_, _, _, _)
ChaseFrom(i, total_pixels, current_pixel, color) ==
    IF i >= total_pixels THEN <<>>
    ELSE (IF i = current_pixel THEN color ELSE BLACK)
             \o ChaseFrom(i + 1, total_pixels, current_pixel, color)

\* step % total_pixels with Python's sign rule (the result has the divisor's sign).
PyMod(a, b) == IF b > 0 THEN a % b ELSE -((-a) % (-b))

ChaseFrameMutNoWrap(p) == ChaseFrom(0, p.total_pixels, p.step, p.color)
ChaseFrame(p) == ChaseFrom(0, p.total_pixels, PyMod(p.step, p.total_pixels), p.color)

\* StrobePattern.generate_frame
StrobeFrameMutAlwaysOn(p) == Repeat(p.color, p.total_pixels)
StrobeFrame(p) ==
    LET is_on == (p.step % 2) = 0
    IN  IF is_on THEN Repeat(p.color, p.total_pixels)
        ELSE Repeat(BLACK, p.total_pixels)

\* SolidColorPattern.generate_frame
SolidFrame(p) == Repeat(p.color, p.total_pixels)

\* ---------------------------------------------------------------------
\* Python float arithmetic (IEEE-754 binary64, round to nearest, ties to
\* even) for the values the Rainbow and Wave generators compute.  A float
\* is carried exactly as a fixed-point number: ten limbs of LimbBits bits,
\* little-endian, the low FracLimbs limbs holding the fraction.  Every
\* operation produces the exact result and then rounds it to MantissaBits
\* significant bits, as the hardware does.  The magnitudes lie between
\* 2^-59 and 2^28, so no exponent is stored; a sign is kept beside the
\* magnitude where a value can be negative.
\* ---------------------------------------------------------------------
LimbBits == 14
FracLimbs == 8
MantissaBits == 53
Base == 2 ^ LimbBits
LimbIdx == 0 .. (FracLimbs + 1)

FloatZero == [j \in LimbIdx |-> 0]

\* float(k) for a small non-negative int k
FloatOfInt(k) ==
    [j \in LimbIdx |-> IF j = FracLimbs THEN k % Base
                       ELSE IF j = FracLimbs + 1 THEN k \div Base
                       ELSE 0]

RECURSIVE AddCarry(_, _, _)
AddCarry(x, y, j) ==
    IF j = 0 THEN 0 ELSE (x[j - 1] + y[j - 1] + AddCarry(x, y, j - 1)) \div Base

\* exact x + y
ExactAdd(x, y) == [j \in LimbIdx |-> (x[j] + y[j] + AddCarry(x, y, j)) % Base]

RECURSIVE SubBorrow(_, _, _)
SubBorrow(x, y, j) ==
    IF j = 0 THEN 0
    ELSE IF x[j - 1] - y[j - 1] - SubBorrow(x, y, j - 1) < 0 THEN 1 ELSE 0

\* exact x - y, for x >= y
ExactSub(x, y) == [j \in LimbIdx |-> (x[j] - y[j] - SubBorrow(x, y, j)) % Base]

RECURSIVE MulCarry(_, _, _)
MulCarry(x, m, j) ==
    IF j = 0 THEN 0 ELSE (x[j - 1] * m + MulCarry(x, m, j - 1)) \div Base

\* exact x * m for a small non-negative int m
ExactMul(x, m) == [j \in LimbIdx |-> (x[j] * m + MulCarry(x, m, j)) % Base]

\* long division of x by a small positive int q: the remainder carried into
\* limb j from the limbs above it
RECURSIVE DivRem(_, _, _)
DivRem(x, q, j) ==
    IF j > FracLimbs + 1 THEN 0 ELSE (DivRem(x, q, j + 1) * Base + x[j]) % q

\* floor(x / q) in fixed point; DivRem(x, q, 0) # 0 says bits were dropped
ExactDivFloor(x, q) ==
    [j \in LimbIdx |-> (DivRem(x, q, j + 1) * Base + x[j]) \div q]

RECURSIVE BitLen(_)
BitLen(v) == IF v = 0 THEN 0 ELSE 1 + BitLen(v \div 2)

TopLimb(x) ==
    CHOOSE j \in LimbIdx : x[j] # 0 /\ \A k \in LimbIdx : k > j => x[k] = 0

\* number of bits up to and including the leading one
Bits(x) == LimbBits * TopLimb(x) + BitLen(x[TopLimb(x)])

Bit(x, b) == (x[b \div LimbBits] \div (2 ^ (b % LimbBits))) % 2

\* every bit below bit b is zero
ZeroBelow(x, b) ==
    /\ x[b \div LimbBits] % (2 ^ (b % LimbBits)) = 0
    /\ \A j \in LimbIdx : j < b \div LimbBits => x[j] = 0

\* x with the bits below bit b cleared
Truncate(x, b) ==
    [j \in LimbIdx |-> IF j < b \div LimbBits THEN 0
                       ELSE IF j = b \div LimbBits
                            THEN x[j] - (x[j] % (2 ^ (b % LimbBits)))
                       ELSE x[j]]

Pow2(b) == [j \in LimbIdx |-> IF j = b \div LimbBits THEN 2 ^ (b % LimbBits) ELSE 0]

\* Round an exact result to a float: keep MantissaBits significant bits,
\* round to nearest, ties to even.  sticky says the exact result has
\* non-zero bits below the last limb.
FloatRound(x, sticky) ==
    IF x = FloatZero THEN x
    ELSE LET shift == Bits(x) - MantissaBits
         IN  IF shift <= 0 THEN x
             ELSE LET up == /\ Bit(x, shift - 1) = 1
                            /\ \/ sticky
                               \/ ~ZeroBelow(x, shift - 1)
                               \/ Bit(x, shift) = 1
                  IN  IF up THEN ExactAdd(Truncate(x, shift), Pow2(shift))
                      ELSE Truncate(x, shift)

FloatAdd(x, y) == FloatRound(ExactAdd(x, y), FALSE)
FloatSub(x, y) == FloatRound(ExactSub(x, y), FALSE)
FloatMul(x, m) == FloatRound(ExactMul(x, m), FALSE)
FloatDiv(x, q) == FloatRound(ExactDivFloor(x, q), DivRem(x, q, 0) # 0)

\* x % 1.0 for x >= 0 (exact)
FloatMod1(x) == [j \in LimbIdx |-> IF j < FracLimbs THEN x[j] ELSE 0]

\* int(x): truncation
FloatInt(x) == x[FracLimbs] + Base * x[FracLimbs + 1]

\* The float a speed literal num/den denotes.
SpeedFloat(speed) == FloatDiv(FloatOfInt(speed[1]), speed[2])

\* RainbowPattern._hsv_to_rgb(hue, 1.0, 1.0), the only way it is called:
\* with saturation = value = 1.0 the products by them are exact.  red, green
\* and blue before the conversion to 0-255:
HsvComponents(hue) ==
    LET h6 == FloatMul(hue, 6)
        color_sector == FloatInt(h6)
        sector_fraction == FloatSub(h6, FloatOfInt(color_sector))
        one == FloatOfInt(1)
        min_rgb_value == FloatSub(one, one)
        mid_rgb_value_1 == FloatSub(one, sector_fraction)
        mid_rgb_value_2 == FloatSub(one, FloatSub(one, sector_fraction))
        sector == color_sector % 6
        rgb == CASE sector = 0 -> <<one, mid_rgb_value_2, min_rgb_value>>
                 [] sector = 1 -> <<mid_rgb_value_1, one, min_rgb_value>>
                 [] sector = 2 -> <<min_rgb_value, one, mid_rgb_value_2>>
                 [] sector = 3 -> <<min_rgb_value, mid_rgb_value_1, one>>
                 [] sector = 4 -> <<mid_rgb_value_2, min_rgb_value, one>>
                 [] OTHER -> <<one, min_rgb_value, mid_rgb_value_1>>
    IN  rgb

\* (int(red * 255), int(green * 255), int(blue * 255))
HsvToRgb(hue) ==
    [c \in 1..3 |-> FloatInt(FloatMul(HsvComponents(hue)[c], 255))]

\* hue of pixel i: ((i / total_pixels) + ((step * speed) / 100)) % 1.0
RainbowHue(p, i) ==
    FloatMod1(FloatAdd(FloatDiv(FloatOfInt(i), p.total_pixels),
                       FloatDiv(FloatMul(SpeedFloat(p.speed), p.step), 100)))

RECURSIVE RainbowFrom(_, _)
RainbowFrom(p, i) ==
    IF i >= p.total_pixels THEN <<>>
    ELSE HsvToRgb(RainbowHue(p, i)) \o RainbowFrom(p, i + 1)

\* RainbowPattern.generate_frame
RainbowFrame(p) == RainbowFrom(p, 0)

\* ---------------------------------------------------------------------
\* WavePattern
\* ---------------------------------------------------------------------
\* math.sin(2 * math.pi * (position + time_offset * self.frequency)) with
\* position = i / total_pixels, time_offset = step / 100 and frequency = 1.0,
\* the default: the binary64 value the C library returns, as
\* <<1 if negative else 0, magnitude>>, for total_pixels in 1 .. 6,
\* i in 0 .. total_pixels - 1 and step in 0 .. 8.
SinTable ==
 <<
  <<
    <<  \* total_pixels = 1, i = 0, step = 0 .. 8
        <<0, <<0, 0, 0, 0, 0, 0, 0, 0, 0, 0>>>>,
        <<0, <<0, 0, 0, 0, 4985, 12162, 12449, 1028, 0, 0>>>>,
        <<0, <<0, 0, 0, 0, 14272, 11530, 7531, 2053, 0, 0>>>>,
        <<0, <<0, 0, 0, 0, 13552, 10267, 908, 3070, 0, 0>>>>,
        <<0, <<0, 0, 0, 0, 3884, 4320, 8767, 4074, 0, 0>>>>,
        <<0, <<0, 0, 0, 0, 9532, 13054, 15309, 5062, 0, 0>>>>,
        <<0, <<0, 0, 0, 0, 9312, 2698, 5778, 6031, 0, 0>>>>,
        <<0, <<0, 0, 0, 0, 1652, 4696, 15858, 6975, 0, 0>>>>,
        <<0, <<0, 0, 0, 0, 9544, 3066, 855, 7893, 0, 0>>>> >> >>,
  <<
    <<  \* total_pixels = 2, i = 0, step = 0 .. 8
        <<0, <<0, 0, 0, 0, 0, 0, 0, 0, 0, 0>>>>,
        <<0, <<0, 0, 0, 0, 4985, 12162, 12449, 1028, 0, 0>>>>,
        <<0, <<0, 0, 0, 0, 14272, 11530, 7531, 2053, 0, 0>>>>,
        <<0, <<0, 0, 0, 0, 13552, 10267, 908, 3070, 0, 0>>>>,
        <<0, <<0, 0, 0, 0, 3884, 4320, 8767, 4074, 0, 0>>>>,
        <<0, <<0, 0, 0, 0, 9532, 13054, 15309, 5062, 0, 0>>>>,
        <<0, <<0, 0, 0, 0, 9312, 2698, 5778, 6031, 0, 0>>>>,
        <<0, <<0, 0, 0, 0, 1652, 4696, 15858, 6975, 0, 0>>>>,
        <<0, <<0, 0, 0, 0, 9544, 3066, 855, 7893, 0, 0>>>> >>,
    <<  \* total_pixels = 2, i = 1, step = 0 .. 8
        <<0, <<896, 10424, 12696, 13508, 8, 0, 0, 0, 0, 0>>>>,
        <<1, <<0, 0, 0, 0, 4983, 12162, 12449, 1028, 0, 0>>>>,
        <<1, <<0, 0, 0, 0, 14274, 11530, 7531, 2053, 0, 0>>>>,
        <<1, <<0, 0, 0, 0, 13564, 10267, 908, 3070, 0, 0>>>>,
        <<1, <<0, 0, 0, 0, 3900, 4320, 8767, 4074, 0, 0>>>>,
        <<1, <<0, 0, 0, 0, 9556, 13054, 15309, 5062, 0, 0>>>>,
        <<1, <<0, 0, 0, 0, 9340, 2698, 5778, 6031, 0, 0>>>>,
        <<1, <<0, 0, 0, 0, 1648, 4696, 15858, 6975, 0, 0>>>>,
        <<1, <<0, 0, 0, 0, 9520, 3066, 855, 7893, 0, 0>>>> >> >>,
  <<
    <<  \* total_pixels = 3, i = 0, step = 0 .. 8
        <<0, <<0, 0, 0, 0, 0, 0, 0, 0, 0, 0>>>>,
        <<0, <<0, 0, 0, 0, 4985, 12162, 12449, 1028, 0, 0>>>>,
        <<0, <<0, 0, 0, 0, 14272, 11530, 7531, 2053, 0, 0>>>>,
        <<0, <<0, 0, 0, 0, 13552, 10267, 908, 3070, 0, 0>>>>,
        <<0, <<0, 0, 0, 0, 3884, 4320, 8767, 4074, 0, 0>>>>,
        <<0, <<0, 0, 0, 0, 9532, 13054, 15309, 5062, 0, 0>>>>,
        <<0, <<0, 0, 0, 0, 9312, 2698, 5778, 6031, 0, 0>>>>,
        <<0, <<0, 0, 0, 0, 1652, 4696, 15858, 6975, 0, 0>>>>,
        <<0, <<0, 0, 0, 0, 9544, 3066, 855, 7893, 0, 0>>>> >>,
    <<  \* total_pixels = 3, i = 1, step = 0 .. 8
        <<0, <<0, 0, 0, 0, 9560, 2825, 15732, 14188, 0, 0>>>>,
        <<0, <<0, 0, 0, 0, 7672, 1017, 9529, 13646, 0, 0>>>>,
        <<0, <<0, 0, 0, 0, 4456, 12492, 5671, 13050, 0, 0>>>>,
        <<0, <<0, 0, 0, 0, 3064, 15624, 9944, 12402, 0, 0>>>>,
        <<0, <<0, 0, 0, 0, 2912, 9122, 15079, 11705, 0, 0>>>>,
        <<0, <<0, 0, 0, 0, 7880, 7233, 587, 10963, 0, 0>>>>,
        <<0, <<0, 0, 0, 0, 288, 10525, 14503, 10176, 0, 0>>>>,
        <<0, <<0, 0, 0, 0, 3792, 12890, 9356, 9350, 0, 0>>>>,
        <<0, <<0, 0, 0, 0, 2200, 7887, 5808, 8487, 0, 0>>>> >>,
    <<  \* total_pixels = 3, i = 2, step = 0 .. 8
        <<1, <<0, 0, 0, 0, 9536, 2825, 15732, 14188, 0, 0>>>>,
        <<1, <<0, 0, 0, 0, 12656, 13179, 5594, 14675, 0, 0>>>>,
        <<1, <<0, 0, 0, 0, 2328, 7639, 13203, 15103, 0, 0>>>>,
        <<1, <<0, 0, 0, 0, 200, 9508, 10853, 15472, 0, 0>>>>,
        <<1, <<0, 0, 0, 0, 6776, 13442, 7462, 15780, 0, 0>>>>,
        <<1, <<0, 0, 0, 0, 1016, 3904, 15897, 16025, 0, 0>>>>,
        <<1, <<0, 0, 0, 0, 9584, 13223, 3897, 16208, 0, 0>>>>,
        <<1, <<0, 0, 0, 0, 5432, 1202, 8831, 16326, 0, 0>>>>,
        <<1, <<0, 0, 0, 0, 11744, 10953, 6663, 16380, 0, 0>>>> >> >>,
  <<
    <<  \* total_pixels = 4, i = 0, step = 0 .. 8
        <<0, <<0, 0, 0, 0, 0, 0, 0, 0, 0, 0>>>>,
        <<0, <<0, 0, 0, 0, 4985, 12162, 12449, 1028, 0, 0>>>>,
        <<0, <<0, 0, 0, 0, 14272, 11530, 7531, 2053, 0, 0>>>>,
        <<0, <<0, 0, 0, 0, 13552, 10267, 908, 3070, 0, 0>>>>,
        <<0, <<0, 0, 0, 0, 3884, 4320, 8767, 4074, 0, 0>>>>,
        <<0, <<0, 0, 0, 0, 9532, 13054, 15309, 5062, 0, 0>>>>,
        <<0, <<0, 0, 0, 0, 9312, 2698, 5778, 6031, 0, 0>>>>,
        <<0, <<0, 0, 0, 0, 1652, 4696, 15858, 6975, 0, 0>>>>,
        <<0, <<0, 0, 0, 0, 9544, 3066, 855, 7893, 0, 0>>>> >>,
    <<  \* total_pixels = 4, i = 1, step = 0 .. 8
        <<0, <<0, 0, 0, 0, 0, 0, 0, 0, 1, 0>>>>,
        <<0, <<0, 0, 0, 0, 8176, 15496, 10975, 16351, 0, 0>>>>,
        <<0, <<0, 0, 0, 0, 2064, 4123, 13226, 16254, 0, 0>>>>,
        <<0, <<0, 0, 0, 0, 4080, 1185, 13014, 16093, 0, 0>>>>,
        <<0, <<0, 0, 0, 0, 14088, 8707, 4366, 15869, 0, 0>>>>,
        <<0, <<0, 0, 0, 0, 10240, 10378, 1801, 15582, 0, 0>>>>,
        <<0, <<0, 0, 0, 0, 5920, 15851, 7502, 15233, 0, 0>>>>,
        <<0, <<0, 0, 0, 0, 11352, 7042, 11246, 14824, 0, 0>>>>,
        <<0, <<0, 0, 0, 0, 704, 4152, 6695, 14357, 0, 0>>>> >>,
    <<  \* total_pixels = 4, i = 2, step = 0 .. 8
        <<0, <<896, 10424, 12696, 13508, 8, 0, 0, 0, 0, 0>>>>,
        <<1, <<0, 0, 0, 0, 4983, 12162, 12449, 1028, 0, 0>>>>,
        <<1, <<0, 0, 0, 0, 14274, 11530, 7531, 2053, 0, 0>>>>,
        <<1, <<0, 0, 0, 0, 13564, 10267, 908, 3070, 0, 0>>>>,
        <<1, <<0, 0, 0, 0, 3900, 4320, 8767, 4074, 0, 0>>>>,
        <<1, <<0, 0, 0, 0, 9556, 13054, 15309, 5062, 0, 0>>>>,
        <<1, <<0, 0, 0, 0, 9340, 2698, 5778, 6031, 0, 0>>>>,
        <<1, <<0, 0, 0, 0, 1648, 4696, 15858, 6975, 0, 0>>>>,
        <<1, <<0, 0, 0, 0, 9520, 3066, 855, 7893, 0, 0>>>> >>,
    <<  \* total_pixels = 4, i = 3, step = 0 .. 8
        <<1, <<0, 0, 0, 0, 0, 0, 0, 0, 1, 0>>>>,
        <<1, <<0, 0, 0, 0, 8176, 15496, 10975, 16351, 0, 0>>>>,
        <<1, <<0, 0, 0, 0, 2072, 4123, 13226, 16254, 0, 0>>>>,
        <<1, <<0, 0, 0, 0, 4088, 1185, 13014, 16093, 0, 0>>>>,
        <<1, <<0, 0, 0, 0, 14080, 8707, 4366, 15869, 0, 0>>>>,
        <<1, <<0, 0, 0, 0, 10240, 10378, 1801, 15582, 0, 0>>>>,
        <<1, <<0, 0, 0, 0, 5912, 15851, 7502, 15233, 0, 0>>>>,
        <<1, <<0, 0, 0, 0, 11360, 7042, 11246, 14824, 0, 0>>>>,
        <<1, <<0, 0, 0, 0, 728, 4152, 6695, 14357, 0, 0>>>> >> >>,
  <<
    <<  \* total_pixels = 5, i = 0, step = 0 .. 8
        <<0, <<0, 0, 0, 0, 0, 0, 0, 0, 0, 0>>>>,
        <<0, <<0, 0, 0, 0, 4985, 12162, 12449, 1028, 0, 0>>>>,
        <<0, <<0, 0, 0, 0, 14272, 11530, 7531, 2053, 0, 0>>>>,
        <<0, <<0, 0, 0, 0, 13552, 10267, 908, 3070, 0, 0>>>>,
        <<0, <<0, 0, 0, 0, 3884, 4320, 8767, 4074, 0, 0>>>>,
        <<0, <<0, 0, 0, 0, 9532, 13054, 15309, 5062, 0, 0>>>>,
        <<0, <<0, 0, 0, 0, 9312, 2698, 5778, 6031, 0, 0>>>>,
        <<0, <<0, 0, 0, 0, 1652, 4696, 15858, 6975, 0, 0>>>>,
        <<0, <<0, 0, 0, 0, 9544, 3066, 855, 7893, 0, 0>>>> >>,
    <<  \* total_pixels = 5, i = 1, step = 0 .. 8
        <<0, <<0, 0, 0, 0, 10232, 10378, 1801, 15582, 0, 0>>>>,
        <<0, <<0, 0, 0, 0, 14080, 8707, 4366, 15869, 0, 0>>>>,
        <<0, <<0, 0, 0, 0, 4080, 1185, 13014, 16093, 0, 0>>>>,
        <<0, <<0, 0, 0, 0, 2072, 4123, 13226, 16254, 0, 0>>>>,
        <<0, <<0, 0, 0, 0, 8176, 15496, 10975, 16351, 0, 0>>>>,
        <<0, <<0, 0, 0, 0, 0, 0, 0, 0, 1, 0>>>>,
        <<0, <<0, 0, 0, 0, 8176, 15496, 10975, 16351, 0, 0>>>>,
        <<0, <<0, 0, 0, 0, 2064, 4123, 13226, 16254, 0, 0>>>>,
        <<0, <<0, 0, 0, 0, 4080, 1185, 13014, 16093, 0, 0>>>> >>,
    <<  \* total_pixels = 5, i = 2, step = 0 .. 8
        <<0, <<0, 0, 0, 0, 4856, 3755, 4482, 9630, 0, 0>>>>,
        <<0, <<0, 0, 0, 0, 6792, 773, 16158, 8778, 0, 0>>>>,
        <<0, <<0, 0, 0, 0, 9536, 3066, 855, 7893, 0, 0>>>>,
        <<0, <<0, 0, 0, 0, 1636, 4696, 15858, 6975, 0, 0>>>>,
        <<0, <<0, 0, 0, 0, 9328, 2698, 5778, 6031, 0, 0>>>>,
        <<0, <<0, 0, 0, 0, 9540, 13054, 15309, 5062, 0, 0>>>>,
        <<0, <<0, 0, 0, 0, 3886, 4320, 8767, 4074, 0, 0>>>>,
        <<0, <<0, 0, 0, 0, 13550, 10267, 908, 3070, 0, 0>>>>,
        <<0, <<0, 0, 0, 0, 14260, 11530, 7531, 2053, 0, 0>>>> >>,
    <<  \* total_pixels = 5, i = 3, step = 0 .. 8
        <<1, <<0, 0, 0, 0, 4840, 3755, 4482, 9630, 0, 0>>>>,
        <<1, <<0, 0, 0, 0, 3544, 5792, 9087, 10443, 0, 0>>>>,
        <<1, <<0, 0, 0, 0, 160, 8740, 10154, 11215, 0, 0>>>>,
        <<1, <<0, 0, 0, 0, 160, 14935, 6913, 11943, 0, 0>>>>,
        <<1, <<0, 0, 0, 0, 8024, 11117, 1457, 12624, 0, 0>>>>,
        <<1, <<0, 0, 0, 0, 9528, 13054, 15309, 13254, 0, 0>>>>,
        <<1, <<0, 0, 0, 0, 13344, 11397, 7679, 13833, 0, 0>>>>,
        <<1, <<0, 0, 0, 0, 680, 4152, 6695, 14357, 0, 0>>>>,
        <<1, <<0, 0, 0, 0, 11344, 7042, 11246, 14824, 0, 0>>>> >>,
    <<  \* total_pixels = 5, i = 4, step = 0 .. 8
        <<1, <<0, 0, 0, 0, 10240, 10378, 1801, 15582, 0, 0>>>>,
        <<1, <<0, 0, 0, 0, 5912, 15851, 7502, 15233, 0, 0>>>>,
        <<1, <<0, 0, 0, 0, 11360, 7042, 11246, 14824, 0, 0>>>>,
        <<1, <<0, 0, 0, 0, 696, 4152, 6695, 14357, 0, 0>>>>,
        <<1, <<0, 0, 0, 0, 13352, 11397, 7679, 13833, 0, 0>>>>,
        <<1, <<0, 0, 0, 0, 9504, 13054, 15309, 13254, 0, 0>>>>,
        <<1, <<0, 0, 0, 0, 8000, 11117, 1457, 12624, 0, 0>>>>,
        <<1, <<0, 0, 0, 0, 128, 14935, 6913, 11943, 0, 0>>>>,
        <<1, <<0, 0, 0, 0, 176, 8740, 10154, 11215, 0, 0>>>> >> >>,
  <<
    <<  \* total_pixels = 6, i = 0, step = 0 .. 8
        <<0, <<0, 0, 0, 0, 0, 0, 0, 0, 0, 0>>>>,
        <<0, <<0, 0, 0, 0, 4985, 12162, 12449, 1028, 0, 0>>>>,
        <<0, <<0, 0, 0, 0, 14272, 11530, 7531, 2053, 0, 0>>>>,
        <<0, <<0, 0, 0, 0, 13552, 10267, 908, 3070, 0, 0>>>>,
        <<0, <<0, 0, 0, 0, 3884, 4320, 8767, 4074, 0, 0>>>>,
        <<0, <<0, 0, 0, 0, 9532, 13054, 15309, 5062, 0, 0>>>>,
        <<0, <<0, 0, 0, 0, 9312, 2698, 5778, 6031, 0, 0>>>>,
        <<0, <<0, 0, 0, 0, 1652, 4696, 15858, 6975, 0, 0>>>>,
        <<0, <<0, 0, 0, 0, 9544, 3066, 855, 7893, 0, 0>>>> >>,
    <<  \* total_pixels = 6, i = 1, step = 0 .. 8
        <<0, <<0, 0, 0, 0, 9552, 2825, 15732, 14188, 0, 0>>>>,
        <<0, <<0, 0, 0, 0, 12656, 13179, 5594, 14675, 0, 0>>>>,
        <<0, <<0, 0, 0, 0, 2336, 7639, 13203, 15103, 0, 0>>>>,
        <<0, <<0, 0, 0, 0, 208, 9508, 10853, 15472, 0, 0>>>>,
        <<0, <<0, 0, 0, 0, 6784, 13442, 7462, 15780, 0, 0>>>>,
        <<0, <<0, 0, 0, 0, 1024, 3904, 15897, 16025, 0, 0>>>>,
        <<0, <<0, 0, 0, 0, 9592, 13223, 3897, 16208, 0, 0>>>>,
        <<0, <<0, 0, 0, 0, 5440, 1202, 8831, 16326, 0, 0>>>>,
        <<0, <<0, 0, 0, 0, 11744, 10953, 6663, 16380, 0, 0>>>> >>,
    <<  \* total_pixels = 6, i = 2, step = 0 .. 8
        <<0, <<0, 0, 0, 0, 9560, 2825, 15732, 14188, 0, 0>>>>,
        <<0, <<0, 0, 0, 0, 7672, 1017, 9529, 13646, 0, 0>>>>,
        <<0, <<0, 0, 0, 0, 4456, 12492, 5671, 13050, 0, 0>>>>,
        <<0, <<0, 0, 0, 0, 3064, 15624, 9944, 12402, 0, 0>>>>,
        <<0, <<0, 0, 0, 0, 2912, 9122, 15079, 11705, 0, 0>>>>,
        <<0, <<0, 0, 0, 0, 7880, 7233, 587, 10963, 0, 0>>>>,
        <<0, <<0, 0, 0, 0, 288, 10525, 14503, 10176, 0, 0>>>>,
        <<0, <<0, 0, 0, 0, 3792, 12890, 9356, 9350, 0, 0>>>>,
        <<0, <<0, 0, 0, 0, 2200, 7887, 5808, 8487, 0, 0>>>> >>,
    <<  \* total_pixels = 6, i = 3, step = 0 .. 8
        <<0, <<896, 10424, 12696, 13508, 8, 0, 0, 0, 0, 0>>>>,
        <<1, <<0, 0, 0, 0, 4983, 12162, 12449, 1028, 0, 0>>>>,
        <<1, <<0, 0, 0, 0, 14274, 11530, 7531, 2053, 0, 0>>>>,
        <<1, <<0, 0, 0, 0, 13564, 10267, 908, 3070, 0, 0>>>>,
        <<1, <<0, 0, 0, 0, 3900, 4320, 8767, 4074, 0, 0>>>>,
        <<1, <<0, 0, 0, 0, 9556, 13054, 15309, 5062, 0, 0>>>>,
        <<1, <<0, 0, 0, 0, 9340, 2698, 5778, 6031, 0, 0>>>>,
        <<1, <<0, 0, 0, 0, 1648, 4696, 15858, 6975, 0, 0>>>>,
        <<1, <<0, 0, 0, 0, 9520, 3066, 855, 7893, 0, 0>>>> >>,
    <<  \* total_pixels = 6, i = 4, step = 0 .. 8
        <<1, <<0, 0, 0, 0, 9536, 2825, 15732, 14188, 0, 0>>>>,
        <<1, <<0, 0, 0, 0, 12656, 13179, 5594, 14675, 0, 0>>>>,
        <<1, <<0, 0, 0, 0, 2328, 7639, 13203, 15103, 0, 0>>>>,
        <<1, <<0, 0, 0, 0, 200, 9508, 10853, 15472, 0, 0>>>>,
        <<1, <<0, 0, 0, 0, 6776, 13442, 7462, 15780, 0, 0>>>>,
        <<1, <<0, 0, 0, 0, 1016, 3904, 15897, 16025, 0, 0>>>>,
        <<1, <<0, 0, 0, 0, 9584, 13223, 3897, 16208, 0, 0>>>>,
        <<1, <<0, 0, 0, 0, 5432, 1202, 8831, 16326, 0, 0>>>>,
        <<1, <<0, 0, 0, 0, 11744, 10953, 6663, 16380, 0, 0>>>> >>,
    <<  \* total_pixels = 6, i = 5, step = 0 .. 8
        <<1, <<0, 0, 0, 0, 9552, 2825, 15732, 14188, 0, 0>>>>,
        <<1, <<0, 0, 0, 0, 7680, 1017, 9529, 13646, 0, 0>>>>,
        <<1, <<0, 0, 0, 0, 4440, 12492, 5671, 13050, 0, 0>>>>,
        <<1, <<0, 0, 0, 0, 3048, 15624, 9944, 12402, 0, 0>>>>,
        <<1, <<0, 0, 0, 0, 2872, 9122, 15079, 11705, 0, 0>>>>,
        <<1, <<0, 0, 0, 0, 7864, 7233, 587, 10963, 0, 0>>>>,
        <<1, <<0, 0, 0, 0, 296, 10525, 14503, 10176, 0, 0>>>>,
        <<1, <<0, 0, 0, 0, 3832, 12890, 9356, 9350, 0, 0>>>>,
        <<1, <<0, 0, 0, 0, 2208, 7887, 5808, 8487, 0, 0>>>> >> >> >>

WaveSin(p, i) ==
    LET v == SinTable[p.total_pixels][i + 1][p.step + 1]
    IN  [neg |-> v[1] = 1, mag |-> [j \in LimbIdx |-> v[2][j + 1]]]

\* x >= y
FloatGeq(x, y) == SubBorrow(x, y, FracLimbs + 2) = 0

\* brightness = 0.5 + self.amplitude * math.sin(...); the amplitude is the
\* literal num/den, a power of two or a small multiple of one.
WaveBrightness(p, i) ==
    LET s == WaveSin(p, i)
        half == FloatDiv(FloatOfInt(1), 2)
        m == FloatDiv(ExactMul(s.mag, p.amplitude[1]), p.amplitude[2])
    IN  IF ~s.neg THEN [neg |-> FALSE, mag |-> FloatAdd(half, m)]
        ELSE IF FloatGeq(half, m) THEN [neg |-> FALSE, mag |-> FloatSub(half, m)]
        ELSE [neg |-> TRUE, mag |-> FloatSub(m, half)]

\* int(c * brightness): the product is rounded, int() truncates toward zero.
WaveChannel(c, brightness) ==
    LET v == FloatInt(FloatMul(brightness.mag, c))
    IN  IF brightness.neg THEN -v ELSE v

RECURSIVE WaveFrom(_, _)
WaveFrom(p, i) ==
    IF i >= p.total_pixels THEN <<>>
    ELSE [c \in 1..3 |-> WaveChannel(p.color[c], WaveBrightness(p, i))]
             \o WaveFrom(p, i + 1)

\* WavePattern.generate_frame
WaveFrame(p) == WaveFrom(p, 0)

\* generate_frame raises ZeroDivisionError in ChasePattern when total_pixels is 0.
GenerateRaises(p) == p.kind = "chase" /\ p.total_pixels = 0

GenerateFrameOf(p) ==
    CASE p.kind = "chase" -> ChaseFrame(p)
      [] p.kind = "strobe" -> StrobeFrame(p)
      [] p.kind = "solid" -> SolidFrame(p)
      [] p.kind = "rainbow" -> RainbowFrame(p)
      [] p.kind = "wave" -> WaveFrame(p)

\* What a generator call leaves behind: the frame, or the exception.
Generated(op) ==
    /\ gen' = [op |-> op, pattern |-> pattern,
               status |-> IF GenerateRaises(pattern) THEN "raised" ELSE "ok"]
    /\ frame_data' = IF GenerateRaises(pattern) THEN frame_data
                     ELSE GenerateFrameOf(pattern)

\* pattern.generate_frame()
GenerateFrame ==
    /\ Idle
    /\ pattern.kind # "none"
    /\ Generated("generate_frame")
    /\ UNCHANGED <<pattern, sliced, fixtures_data, next_calls, registryVars,
                   senderVars, controllerVars>>

\* BasePattern.next_frame: generate_frame, then step += 1 (not reached when
\* generate_frame raises).
NextFrame ==
    /\ Idle
    /\ pattern.kind # "none"
    /\ pattern.step < MaxStep
    /\ next_calls < MaxStep
    /\ Generated("next_frame")
    /\ pattern' = IF GenerateRaises(pattern) THEN pattern
                  ELSE [pattern EXCEPT !.step = @ + 1]
    /\ next_calls' = next_calls + 1
    /\ UNCHANGED <<sliced, fixtures_data, registryVars, senderVars, controllerVars>>

\* BasePattern.reset
Reset ==
    /\ Idle
    /\ pattern.kind # "none"
    /\ pattern' = [pattern EXCEPT !.step = 0]
    /\ next_calls' = 0
    /\ UNCHANGED <<frame_data, gen, sliced, fixtures_data, registryVars, senderVars,
                   controllerVars>>

\* frame_data[start:end] on a Python list: negative indices count from the end,
\* out-of-range indices are clamped, an empty range gives [].
PySliceIndex(x, n) == IF x < 0 THEN (IF x + n < 0 THEN 0 ELSE x + n)
                      ELSE (IF x > n THEN n ELSE x)
PySlice(s, start, end) ==
    LET lo == PySliceIndex(start, Len(s))
        hi == PySliceIndex(end, Len(s))
    IN  IF lo < hi THEN SubSeq(s, lo + 1, hi) ELSE <<>>

\* BasePattern.get_fixture_data: the loop over the registry, from pixel_offset on.
RECURSIVE SliceFromMutNoOffset(_, _, _)
SliceFromMutNoOffset(fs, pixel_offset, frame) ==
    IF fs = <<>> THEN <<>>
    ELSE LET fixture == fs[1]
             start_idx == pixel_offset * 3
             end_idx == (pixel_offset + fixture.pixel_count) * 3
         IN  <<[fixture |-> fixture,
                pixel_data |-> PySlice(frame, start_idx, end_idx)]>>
                 \o SliceFromMutNoOffset(Tail(fs), pixel_offset, frame)
RECURSIVE SliceFrom(_, _, _)
SliceFrom(fs, pixel_offset, frame) ==
    IF fs = <<>> THEN <<>>
    ELSE LET fixture == fs[1]
             start_idx == pixel_offset * 3
             end_idx == (pixel_offset + fixture.pixel_count) * 3
         IN  <<[fixture |-> fixture,
                pixel_data |-> PySlice(frame, start_idx, end_idx)]>>
                 \o SliceFrom(Tail(fs), pixel_offset + fixture.pixel_count, frame)

\* It iterates self.fixture_manager, the registry as it is at the call.
GetFixtureData(frame) ==
    /\ Idle
    /\ pattern.kind # "none"
    /\ sliced' = [called |-> TRUE, frame |-> frame, fixtures |-> fixtures]
    /\ fixtures_data' = SliceFrom(fixtures, 0, frame)
    /\ UNCHANGED <<pattern, frame_data, gen, next_calls, registryVars, senderVars,
                   controllerVars>>

(***************************************************************************)
(* ArtNetController                                                        *)
(***************************************************************************)
\* delay = 1.0 / fps: the unit of the clock
FrameDelay == 1

\* How a controller method ended: normally or by an exception, the cause of
\* the exception, the registry it worked on and the number of
\* send_multiple_fixtures calls it made.
Ended(op, status, cause, fs, sends) ==
    [op |-> op, status |-> status, cause |-> cause, fixtures |-> fs, sends |-> sends]
NoneEnded == Ended("none", "none", "none", <<>>, 0)

\* `not self.fixture_manager`: FixtureManager.__len__ is 0
NoFixturesMutNever == FALSE
NoFixtures == Len(fixtures) = 0

\* run_pattern's arguments and locals.  duration is <<>> for None, else <<d>>;
\* callback says whether one was given.  Beside them: the registry and the
\* pattern's step at the call, the ticks begun, and the callback's
\* invocations.
RunRecord(status, stopped_by, duration, callback) ==
    [status |-> status, stopped_by |-> stopped_by, duration |-> duration,
     callback |-> callback, start_time |-> now, frame_start |-> now,
     frame_count |-> 0, elapsed |-> 0, at |-> "tick", unsent |-> 0,
     registry |-> fixtures, start_step |-> pattern.step, ticks |-> 0,
     callbacks |-> <<>>]

\* run_pattern, entry: nothing is done for an empty registry.
RunPattern(duration, callback) ==
    /\ Idle
    /\ pattern.kind # "none"
    /\ run.status = "none"
    /\ IF NoFixtures
       THEN /\ run' = RunRecord("returned", "no_fixtures", duration, callback)
            /\ cret' = Ended("run_pattern", "returned", "none", fixtures, 0)
            /\ ctl' = ctl
       ELSE /\ run' = RunRecord("running", "none", duration, callback)
            /\ cret' = NoneEnded
            /\ ctl' = <<"run_pattern">>
    /\ UNCHANGED <<now, registryVars, patternVars, senderVars>>

\* The first half of one iteration of `while True`: frame_start, next_frame,
\* get_fixture_data and the call of send_multiple_fixtures.  An exception
\* reaches `except Exception`, which logs it and raises it again.
RunTick(sock_ok) ==
    /\ ctl = <<"run_pattern">> /\ pc = "idle" /\ run.at = "tick"
    /\ run.frame_count < MaxFrames
    /\ next_calls' = next_calls + 1
    /\ Generated("next_frame")
    /\ IF GenerateRaises(pattern)
       THEN /\ run' = [run EXCEPT !.status = "raised",
                                  !.stopped_by = "generator_error",
                                  !.frame_start = now,
                                  !.ticks = @ + 1]
            /\ ctl' = <<>>
            /\ cret' = Ended("run_pattern", "raised", "generator_error", fixtures, 0)
            /\ UNCHANGED <<pattern, sliced, fixtures_data, senderVars>>
       ELSE LET frame == GenerateFrameOf(pattern)
                batch == SliceFrom(fixtures, 0, frame)
                have == ~NeedsSocket \/ sock_ok
            IN  /\ pattern' = [pattern EXCEPT !.step = @ + 1]
                /\ sliced' = [called |-> TRUE, frame |-> frame, fixtures |-> fixtures]
                /\ fixtures_data' = batch
                /\ SmfEnter(batch, sock_ok)
                /\ run' = IF have
                          THEN [run EXCEPT !.at = "sending", !.frame_start = now,
                                           !.ticks = @ + 1]
                          ELSE [run EXCEPT !.status = "raised",
                                           !.stopped_by = "send_error",
                                           !.frame_start = now,
                                           !.ticks = @ + 1]
                /\ ctl' = IF have THEN ctl ELSE <<>>
                /\ cret' = IF have THEN cret
                           ELSE Ended("run_pattern", "raised", "send_error", fixtures, 1)
    /\ UNCHANGED <<now, registryVars>>

\* frame_count += 1; callback(frame_count, frame_data, fixtures_data): the
\* arguments, beside them the pattern's step and what the sender was given
\* and has attempted when the callback is called.
CallbackInvocationMutBeforeCount ==
    [frame_count |-> run.frame_count,
     frame_data |-> frame_data,
     fixtures_data |-> fixtures_data,
     step |-> pattern.step,
     batch |-> call.batch,
     attempted |-> Len(outcomes)]
CallbackInvocation ==
    [frame_count |-> run.frame_count + 1,
     frame_data |-> frame_data,
     fixtures_data |-> fixtures_data,
     step |-> pattern.step,
     batch |-> call.batch,
     attempted |-> Len(outcomes)]

\* The second half, once send_multiple_fixtures has returned: frame_count,
\* the callback, the duration check (`if duration and ...`: None and 0 are
\* both false), and the sleep time.
RunAfterSend(cb_ok) ==
    /\ ctl = <<"run_pattern">> /\ pc = "idle" /\ run.at = "sending"
    /\ LET elapsed == now - run.start_time
           r == [run EXCEPT !.frame_count = @ + 1,
                            !.callbacks = IF run.callback
                                          THEN Append(@, CallbackInvocation)
                                          ELSE @]
           cb_raises == run.callback /\ ~cb_ok
           expired == /\ run.duration # <<>>
                      /\ run.duration[1] # 0
                      /\ elapsed >= run.duration[1]
           frame_time == now - run.frame_start
           sleep_time == IF FrameDelay - frame_time > 0
                         THEN FrameDelay - frame_time ELSE 0
       IN  IF cb_raises
           THEN /\ run' = [r EXCEPT !.status = "raised",
                                    !.stopped_by = "callback_error"]
                /\ ctl' = <<>>
                /\ cret' = Ended("run_pattern", "raised", "callback_error", fixtures, 1)
           ELSE IF expired
           THEN /\ run' = [r EXCEPT !.status = "returned",
                                    !.stopped_by = "duration",
                                    !.elapsed = elapsed]
                /\ ctl' = <<>>
                /\ cret' = Ended("run_pattern", "returned", "none", fixtures, 1)
           ELSE /\ run' = [r EXCEPT !.elapsed = elapsed,
                                    !.at = IF sleep_time > 0 THEN "sleeping"
                                           ELSE "tick"]
                /\ ctl' = ctl
                /\ cret' = cret
    /\ UNCHANGED <<now, registryVars, patternVars, senderVars>>

\* time.sleep(sleep_time) returns.
RunWake ==
    /\ ctl = <<"run_pattern">> /\ run.at = "sleeping"
    /\ run.frame_start + FrameDelay <= MaxTime
    /\ now' = run.frame_start + FrameDelay
    /\ run' = [run EXCEPT !.at = "tick"]
    /\ UNCHANGED <<ctl, cret, registryVars, patternVars, senderVars>>

\* Time passes while run_pattern's packets are being sent.
Elapse ==
    /\ ctl = <<"run_pattern">> /\ pc = "smf_loop"
    /\ now < MaxTime
    /\ now' = now + 1
    /\ UNCHANGED <<ctl, run, cret, registryVars, patternVars, senderVars>>

\* The user presses Ctrl-C while a controller method runs.  KeyboardInterrupt
\* is not an Exception: the handler inside send_multiple_fixtures' loop does
\* not catch it, so it leaves the loop at once.  run_pattern catches it, logs
\* and returns; stop_all_fixtures and close let it through.
KeyboardInterrupt ==
    /\ ctl # <<>>
    /\ pc' = "idle"
    /\ ret' = IF pc = "smf_loop" THEN "raised" ELSE ret
    /\ ctl' = <<>>
    /\ IF ctl[1] = "run_pattern"
       THEN /\ run' = [run EXCEPT !.status = "returned",
                                  !.stopped_by = "interrupt",
                                  !.unsent = IF pc = "smf_loop"
                                             THEN Len(call.batch) - Len(outcomes)
                                             ELSE 0]
            /\ cret' = Ended("run_pattern", "returned", "interrupt", fixtures, 0)
       ELSE /\ run' = run
            /\ cret' = Ended(ctl[1], "raised", "interrupt", fixtures, 1)
    /\ UNCHANGED <<call, outcomes, wire, sock, os_sockets, now, registryVars,
                   patternVars>>

\* stop_all_fixtures: pattern = SolidColorPattern(self.fixture_manager, BLACK),
\* its frame, sliced.
BlackBatch ==
    SliceFrom(fixtures, 0,
              SolidFrame([color |-> BLACK, total_pixels |-> GetTotalPixels]))

\* stop_all_fixtures up to the call of send_multiple_fixtures, on behalf of
\* `op`: "stop_all_fixtures" itself, or "close", which calls it first.
StopEnter(op, sock_ok) ==
    LET have == ~NeedsSocket \/ sock_ok
    IN  /\ SmfEnter(BlackBatch, sock_ok)
        /\ ctl' = IF have
                  THEN (IF op = "close" THEN <<"close", "stop_all_fixtures">>
                        ELSE <<"stop_all_fixtures">>)
                  ELSE <<>>
        /\ cret' = IF have THEN NoneEnded
                   ELSE Ended(op, "raised", "socket_error", fixtures, 1)

StopAllFixtures(sock_ok) ==
    /\ Idle
    /\ IF NoFixtures
       THEN /\ cret' = Ended("stop_all_fixtures", "returned", "none", fixtures, 0)
            /\ UNCHANGED <<ctl, senderVars>>
       ELSE StopEnter("stop_all_fixtures", sock_ok)
    /\ UNCHANGED <<run, now, registryVars, patternVars>>

\* ArtNetController.close (and __exit__): stop_all_fixtures(), then
\* artnet_sender.close().
ControllerClose(sock_ok) ==
    /\ Idle
    /\ IF NoFixtures
       THEN /\ sock' = "None"
            /\ os_sockets' = IF sock = "open" THEN os_sockets - 1 ELSE os_sockets
            /\ cret' = Ended("close", "returned", "none", fixtures, 0)
            /\ UNCHANGED <<ctl, pc, call, outcomes, wire, ret>>
       ELSE StopEnter("close", sock_ok)
    /\ UNCHANGED <<run, now, registryVars, patternVars>>

\* send_multiple_fixtures has returned to stop_all_fixtures, which logs and
\* returns; inside close, artnet_sender.close() follows.
StopAfterSend ==
    /\ ctl # <<>> /\ ctl[Len(ctl)] = "stop_all_fixtures" /\ pc = "idle"
    /\ ctl' = <<>>
    /\ cret' = Ended(ctl[1], "returned", "none", fixtures, 1)
    /\ sock' = IF ctl[1] = "close" THEN "None" ELSE sock
    /\ os_sockets' = IF ctl[1] = "close" /\ sock = "open" THEN os_sockets - 1
                     ELSE os_sockets
    /\ UNCHANGED <<pc, call, outcomes, wire, ret, run, now, registryVars,
                   patternVars>>

(***************************************************************************)
(* Inputs                                                                  *)
(***************************************************************************)
\* n bytes, each different from its neighbours: base+1, base+2, ... mod 256
Ramp(n, base) == [i \in 1..n |-> (base + i) % 256]

Universes == {0, 1, 255, 256, 4660, 32767, 32768, 65541, -1}
PixelCounts == -1..MaxPixelCount
Colors == {<<255, 255, 255>>, <<1, 2, 3>>, <<0, 0, 5>>, <<0, 0, 0>>}

(***************************************************************************)
(* Initial state: a controller that was just constructed.                  *)
(***************************************************************************)
\* run_pattern has not been called.
NoRun == [status |-> "none"]

Init ==
    /\ fixtures = <<>>
    /\ added = NotAdded
    /\ disc = NoDiscovery
    /\ pattern = NoPattern
    /\ frame_data = <<>>
    /\ gen = [op |-> "none", pattern |-> NoPattern, status |-> "none"]
    /\ sliced = [called |-> FALSE, frame |-> <<>>, fixtures |-> <<>>]
    /\ fixtures_data = <<>>
    /\ sock = "None"
    /\ os_sockets = 0
    /\ pc = "idle"
    /\ call = [op |-> "none"]
    /\ outcomes = <<>>
    /\ wire = <<>>
    /\ ret = "none"
    /\ next_calls = 0
    /\ ctl = <<>>
    /\ run = NoRun
    /\ now = 0
    /\ cret = NoneEnded

(***************************************************************************)
(* The transmitter on its own, over a wide range of universes and payloads *)
(***************************************************************************)
PayloadLengths == {0, 3, 6, 512, 513}
Payloads == {Ramp(n, 0) : n \in PayloadLengths}
                \cup {<<0, 256, 0>>, <<-1, 0, 0>>, Ramp(6, 250)}

\* send_dmx_data is called with every universe, and with every payload and
\* address for one universe.
DmxInputs ==
    {<<"192.168.1.100", universe, Ramp(6, 0)>> : universe \in Universes}
        \cup {<<ip, 4660, pixel_data>> : ip \in Ips, pixel_data \in Payloads}

Entry(ip, universe, pixel_data) ==
    [fixture |-> Fixture(ip, Len(pixel_data) \div 3, universe, "None"),
     pixel_data |-> pixel_data]
Entries ==
    { Entry("192.168.1.100", 4660, Ramp(6, 0)),
      Entry("10.0.2.5", 65541, Ramp(513, 0)),
      Entry("10.0.2.5", 1, <<0, 256, 0>>) }
Batches == UNION {[1..k -> Entries] : k \in 0..MaxBatch}

NextSender ==
    \/ \E in \in DmxInputs, sock_ok \in BOOLEAN, net_ok \in BOOLEAN :
            SendDmxData(in[1], in[2], in[3], sock_ok, net_ok)
    \/ \E batch \in Batches, sock_ok \in BOOLEAN : SmfCall(batch, sock_ok)
    \/ \E net_ok \in BOOLEAN : SmfSend(net_ok)
    \/ SmfReturn
    \/ Close

SpecSender == Init /\ [][NextSender]_vars


(***************************************************************************)
(* Properties of the transmitter (checked under SpecSender)                *)
(***************************************************************************)
HeaderLen == Len(StructPack(0, 0, 0))

\* The inputs a datagram on the wire was built from.
InputOf(d) ==
    IF call.op = "send_dmx_data"
    THEN [ip |-> call.ip, universe |-> call.universe, pixel_data |-> call.pixel_data]
    ELSE [ip |-> call.batch[d.entry].fixture.ip,
          universe |-> call.batch[d.entry].fixture.universe,
          pixel_data |-> call.batch[d.entry].pixel_data]

SenderCallEnded ==
    pc = "idle" /\ call.op \in {"send_dmx_data", "send_multiple_fixtures"}

AllSent == \A i \in 1..Len(outcomes) : outcomes[i] = "sent"

\* C2: whenever a send_multiple_fixtures call has ended, every entry of the
\* batch was attempted, whatever happened to the earlier ones, and the call
\* returned True exactly when every individual send succeeded.
C2_AttemptsEveryEntry ==
    (pc = "idle" /\ call.op = "send_multiple_fixtures") =>
        /\ Len(outcomes) = Len(call.batch)
        /\ ret \in {"True", "False"}
        /\ (ret = "True") <=> AllSent

\* The part of C2 that the loop itself guarantees: once the socket was
\* obtained, every entry is attempted and the result is the conjunction.
SmfLoopAttemptsEveryEntry ==
    (pc = "idle" /\ call.op = "send_multiple_fixtures" /\ ~call.sock_failed) =>
        /\ Len(outcomes) = Len(call.batch)
        /\ ret \in {"True", "False"}
        /\ (ret = "True") <=> AllSent
SmfOneOfThreeFails ==
    /\ pc = "idle" /\ call.op = "send_multiple_fixtures"
    /\ Len(call.batch) = 3
    /\ Cardinality({i \in 1..Len(outcomes) : outcomes[i] = "send_error"}) = 1
    /\ Cardinality({i \in 1..Len(outcomes) : outcomes[i] = "sent"}) = 2
    /\ ret = "False"

\* C3: send_dmx_data never lets an error reach its caller.  It returns True
\* exactly when the datagram built from its arguments was handed to the socket;
\* when the socket cannot be created, the arguments cannot be encoded or sendto
\* fails, it returns False and nothing was sent.
C3_SendDmxNeverRaises ==
    (call.op = "send_dmx_data") =>
        LET enc == Encode(call.universe, call.pixel_data)
        IN  /\ ret \in {"True", "False"}
            /\ (ret = "True") <=>
                   (enc.ok /\ wire = <<Datagram(call.ip, enc.data, 1)>>)
            /\ (call.sock_failed \/ ~enc.ok \/ outcomes = <<"send_error">>) =>
                   (ret = "False" /\ wire = <<>>)
C3_Witness ==
    /\ call.op = "send_dmx_data"
    /\ \E i \in 1..Len(call.pixel_data) : call.pixel_data[i] > 255
    /\ ret = "False" /\ wire = <<>>

\* C4: in every datagram sent for a universe in 0..32767, by either send
\* function, header byte 15 is the universe's low byte and byte 16 its high
\* byte; universe 4660 (0x1234) gives 0x34 = 52 and 0x12 = 18.
C4_UniverseBytes ==
    \A i \in 1..Len(wire) :
        LET u == InputOf(wire[i]).universe
            data == wire[i].data
        IN  u \in 0..32767 =>
                /\ data[15] = u % 256
                /\ data[16] = u \div 256
                /\ (u = 4660 => data[15] = 52 /\ data[16] = 18)
C4_Witness ==
    /\ call.op = "send_multiple_fixtures"
    /\ \E i \in 1..Len(wire) :
          InputOf(wire[i]).universe = 4660 /\ wire[i].data[15] = 52

\* Decoding a datagram: universe = high byte * 256 + low byte, payload = the
\* bytes after the header, of the declared length.
DecodeUniverse(data) == data[16] * 256 + data[15]
DecodeLength(data) == data[17] * 256 + data[18]
DecodePayload(data) == SubSeq(data, HeaderLen + 1, HeaderLen + DecodeLength(data))

\* C5: decoding any datagram sent recovers the universe number and the payload
\* the caller supplied.
C5_RoundTrip ==
    \A i \in 1..Len(wire) :
        /\ DecodeUniverse(wire[i].data) = InputOf(wire[i]).universe
        /\ DecodePayload(wire[i].data) = InputOf(wire[i]).pixel_data

\* C6: a payload longer than 512 bytes is never sent, and a send call given one
\* returns False.
C6_RejectsOver512 ==
    /\ \A i \in 1..Len(wire) : Len(wire[i].data) - HeaderLen <= 512
    /\ (call.op = "send_dmx_data" /\ Len(call.pixel_data) > 512) => ret = "False"
    /\ (call.op = "send_multiple_fixtures" /\ pc = "idle" /\ ~call.sock_failed
          /\ \E i \in 1..Len(call.batch) : Len(call.batch[i].pixel_data) > 512)
         => ret = "False"

\* C7: every datagram sent starts with 'Art-Net' and a zero byte, then opcode
\* 0x5000, protocol version 14, sequence 0 and physical 0, and its length field
\* is the number of payload bytes that follow the header, which are the
\* caller's payload.
C7_HeaderFields ==
    \A i \in 1..Len(wire) :
        LET data == wire[i].data
        IN  /\ SubSeq(data, 1, 8) = <<65, 114, 116, 45, 78, 101, 116, 0>>
            /\ data[9] = 80 /\ data[10] = 0
            /\ data[11] = 0 /\ data[12] = 14
            /\ data[13] = 0 /\ data[14] = 0
            /\ data[17] * 256 + data[18] = Len(data) - HeaderLen
            /\ SubSeq(data, HeaderLen + 1, Len(data)) = InputOf(wire[i]).pixel_data
C7_Witness ==
    \E i \in 1..Len(wire) :
        /\ Len(InputOf(wire[i]).pixel_data) = 512
        /\ wire[i].data[17] = 2 /\ wire[i].data[18] = 0

(***************************************************************************)
(* The slicer on its own, over every registry add_fixture can build        *)
(***************************************************************************)
\* Frames handed to get_fixture_data: of the length the registry asks for, of
\* the length the pattern was built for, and one pixel more or less.
SliceFrameLengths ==
    IF pattern.kind = "none" THEN {}
    ELSE {n \in {3 * GetTotalPixels + d : d \in {-3, 0, 3}}
                \cup {3 * pattern.total_pixels} : n >= 0}
SliceFrames == {Ramp(n, base) : n \in SliceFrameLengths, base \in {0, 100}}

NextSlice ==
    \/ \E pixel_count \in PixelCounts :
            AddFixture("192.168.1.100", pixel_count, "None", 100)
    \/ MakePattern("solid", [color |-> BLACK])
    \/ \E frame \in SliceFrames : GetFixtureData(frame)

SpecSlice == Init /\ [][NextSlice]_vars

RECURSIVE ConcatSlices(_)
ConcatSlices(fd) ==
    IF fd = <<>> THEN <<>> ELSE fd[1].pixel_data \o ConcatSlices(Tail(fd))

\* off_k: the pixel counts of the fixtures before the k-th
PixelOffset(fs, k) == SumPixels(SubSeq(fs, 1, k - 1))

\* The bytes of a frame whose 0-based index i satisfies lo <= i < hi.
BytesInRange(frame, lo, hi) ==
    LET a == IF lo < 0 THEN 0 ELSE lo
        b == IF hi > Len(frame) THEN Len(frame) ELSE hi
    IN  IF a < b THEN SubSeq(frame, a + 1, b) ELSE <<>>

SlicePartition ==
    LET fs == sliced.fixtures
        frame == sliced.frame
    IN  /\ Len(fixtures_data) = Len(fs)
        /\ \A k \in 1..Len(fs) :
              /\ fixtures_data[k].fixture = fs[k]
              /\ fixtures_data[k].pixel_data =
                     BytesInRange(frame, 3 * PixelOffset(fs, k),
                                  3 * (PixelOffset(fs, k) + fs[k].pixel_count))
        /\ ConcatSlices(fixtures_data) = frame

\* C1: for every registry and every frame of length 3 x total pixels,
\* get_fixture_data returns one (fixture, slice) pair per fixture in registry
\* order, fixture k's slice being the bytes [3*off_k, 3*(off_k + pixel_count_k))
\* of the frame, and the slices concatenated in order are the frame.
C1_SlicePartition ==
    (sliced.called /\ Len(sliced.frame) = 3 * SumPixels(sliced.fixtures))
        => SlicePartition

\* What holds of the slicer: the same, for registries without a negative
\* pixel count.
SlicePartitionNonNegative ==
    (/\ sliced.called
     /\ Len(sliced.frame) = 3 * SumPixels(sliced.fixtures)
     /\ \A k \in 1..Len(sliced.fixtures) : sliced.fixtures[k].pixel_count >= 0)
        => SlicePartition
SliceOneAndTwoPixels ==
    /\ sliced.called
    /\ Len(sliced.fixtures) = 2
    /\ sliced.fixtures[1].pixel_count = 1 /\ sliced.fixtures[2].pixel_count = 2
    /\ Len(sliced.frame) = 9
    /\ fixtures_data[1].pixel_data = SubSeq(sliced.frame, 1, 3)
    /\ fixtures_data[2].pixel_data = SubSeq(sliced.frame, 4, 9)

(***************************************************************************)
(* The generators on their own: one pattern object over a registry of      *)
(* every total pixel count, stepped, regenerated and reset.                *)
(***************************************************************************)
PatternRegistries ==
    {<<>>}
        \cup {<<Fixture("192.168.1.100", n, 100, "None")>> : n \in PixelCounts}
        \cup {<<Fixture("192.168.1.100", 1, 100, "None"),
                Fixture("10.0.2.5", n, 5, "None")>> : n \in PixelCounts}

InitPattern ==
    /\ fixtures \in PatternRegistries
    /\ added = NotAdded
    /\ disc = NoDiscovery
    /\ pattern = NoPattern
    /\ frame_data = <<>>
    /\ gen = [op |-> "none", pattern |-> NoPattern, status |-> "none"]
    /\ sliced = [called |-> FALSE, frame |-> <<>>, fixtures |-> <<>>]
    /\ fixtures_data = <<>>
    /\ sock = "None"
    /\ os_sockets = 0
    /\ pc = "idle"
    /\ call = [op |-> "none"]
    /\ outcomes = <<>>
    /\ wire = <<>>
    /\ ret = "none"
    /\ next_calls = 0
    /\ ctl = <<>>
    /\ run = NoRun
    /\ now = 0
    /\ cret = NoneEnded

\* Speeds as the literal num/den; 100/speed is an integer for each of them.
Speeds == {<<1, 1>>, <<10, 1>>, <<20, 1>>, <<1, 2>>}

\* Wave amplitudes as the literal num/den: the default 0.5, and 1.0, the top
\* of the range the constructor documents.
Amplitudes == {<<1, 2>>, <<1, 1>>}
WaveColors == {WHITE, <<1, 2, 3>>}

NextPattern ==
    \/ \E kind \in {"chase", "strobe", "solid"}, color \in Colors :
            pattern = NoPattern /\ MakePattern(kind, [color |-> color])
    \/ \E speed \in Speeds :
            pattern = NoPattern /\ MakePattern("rainbow", [speed |-> speed])
    \/ \E color \in WaveColors, amplitude \in Amplitudes :
            pattern = NoPattern
                /\ MakePattern("wave", [color |-> color, frequency |-> <<1, 1>>,
                                        amplitude |-> amplitude])
    \/ GenerateFrame
    \/ NextFrame
    \/ Reset

SpecPattern == InitPattern /\ [][NextPattern]_vars

\* Pixel i (0-based) of a frame.
Pixel(frame, i) == SubSeq(frame, 3 * i + 1, 3 * i + 3)

\* The frame in frame_data was generated by a pattern of this kind.
FrameOf(kind) == gen.status = "ok" /\ gen.pattern.kind = kind

\* C8: for every step and every total_pixels > 0, with a non-black color, the
\* Chase frame has exactly one non-black pixel, at index step mod total_pixels,
\* and every other pixel is (0,0,0).
C8_ChaseOnePixel ==
    (FrameOf("chase") /\ gen.pattern.total_pixels > 0 /\ gen.pattern.color # BLACK)
        => LET n == gen.pattern.total_pixels
               lit == gen.pattern.step % n
           IN  /\ Len(frame_data) = 3 * n
               /\ {i \in 0..(n - 1) : Pixel(frame_data, i) # <<0, 0, 0>>} = {lit}
               /\ Pixel(frame_data, lit) = gen.pattern.color
C8_Witness ==
    /\ FrameOf("chase") /\ gen.pattern.color = <<0, 0, 5>>
    /\ gen.pattern.total_pixels = 3 /\ gen.pattern.step = 5
    /\ frame_data = <<0, 0, 0, 0, 0, 0, 0, 0, 5>>

\* C9: for every step, the Strobe frame is uniformly on (every pixel is the
\* configured color) when step is even and uniformly off (every pixel black)
\* when step is odd, and next_frame moves to the next step, so successive
\* next_frame calls from step 0 alternate on, off, on, ...
StrobeIsOnOff ==
    FrameOf("strobe")
        => LET n == gen.pattern.total_pixels
               want == IF gen.pattern.step % 2 = 0 THEN gen.pattern.color
                       ELSE <<0, 0, 0>>
           IN  /\ Len(frame_data) = 3 * (IF n > 0 THEN n ELSE 0)
               /\ \A i \in 0..(n - 1) : Pixel(frame_data, i) = want
StrobeUniform(p) ==
    Repeat(IF p.step % 2 = 0 THEN p.color ELSE <<0, 0, 0>>, p.total_pixels)
StrobeStep ==
    (pattern.kind = "strobe" /\ pattern'.kind = "strobe"
        /\ pattern'.step > pattern.step)
        => /\ pattern'.step = pattern.step + 1
           /\ gen'.op = "next_frame" /\ gen'.pattern = pattern
           /\ frame_data' = StrobeUniform(pattern)
C9_StrobeAlternates == [](StrobeIsOnOff) /\ [][StrobeStep]_vars
C9_Witness ==
    /\ FrameOf("strobe") /\ gen.op = "next_frame"
    /\ gen.pattern.color = <<1, 2, 3>>
    /\ gen.pattern.total_pixels = 2 /\ gen.pattern.step = 3
    /\ frame_data = <<0, 0, 0, 0, 0, 0>>

\* ---------------------------------------------------------------------
\* Rainbow
\* ---------------------------------------------------------------------

\* 100 / speed, the number of steps of one revolution of the hue.
Period(speed) == (100 * speed[2]) \div speed[1]

\* C10: for any step and any speed for which 100/speed is an integer, the
\* Rainbow frame generated at step equals the frame generated at
\* step + 100/speed.
C10_RainbowWraps ==
    (FrameOf("rainbow") /\ (100 * gen.pattern.speed[2]) % gen.pattern.speed[1] = 0)
        => frame_data = RainbowFrame([gen.pattern EXCEPT
                                         !.step = @ + Period(gen.pattern.speed)])

\* The revolution does bring some frames back: a one-pixel strip at step 0.
RainbowWrapsAtStepZero ==
    (FrameOf("rainbow") /\ gen.pattern.step = 0 /\ gen.pattern.total_pixels = 1)
        => frame_data = RainbowFrame([gen.pattern EXCEPT
                                         !.step = @ + Period(gen.pattern.speed)])

\* ---------------------------------------------------------------------
\* The step counter
\* ---------------------------------------------------------------------
StepCountsCalls == pattern.kind # "none" => pattern.step = next_calls

\* What one step of the pattern object may do: a next_frame call returns the
\* frame of the step it found and adds one to step; generate_frame leaves the
\* pattern and the registry alone; step otherwise only goes back to 0.
PatternStep ==
    /\ (next_calls' = next_calls + 1) =>
           /\ gen'.op = "next_frame" /\ gen'.status = "ok"
           /\ gen'.pattern = pattern
           /\ frame_data' = GenerateFrameOf(pattern)
           /\ pattern' = [pattern EXCEPT !.step = pattern.step + 1]
           /\ pattern.step = next_calls
           /\ fixtures' = fixtures
    /\ (gen'.op = "generate_frame" /\ gen' # gen) =>
           /\ pattern' = pattern
           /\ fixtures' = fixtures
           /\ gen'.status = "ok" => frame_data' = GenerateFrameOf(pattern)
    /\ (pattern.kind # "none" /\ next_calls' = 0) =>
           pattern' = [pattern EXCEPT !.step = 0]

\* C11: next_frame returns the frame of the current step and then adds exactly
\* one to step, reset sets step to 0, generate_frame changes neither step nor
\* the registry; so step always equals the number of next_frame calls since
\* the last reset or construction, and the k-th of them returns the frame of
\* step k-1.
C11_StepCountsNextFrames == []StepCountsCalls /\ [][PatternStep]_vars

\* What holds: the same for the next_frame calls that return.  A call that
\* raises leaves step as it was.
PatternStepReturned ==
    /\ (next_calls' = next_calls + 1 /\ gen'.status = "ok") =>
           /\ gen'.op = "next_frame" /\ gen'.pattern = pattern
           /\ frame_data' = GenerateFrameOf(pattern)
           /\ pattern' = [pattern EXCEPT !.step = pattern.step + 1]
           /\ fixtures' = fixtures
    /\ (next_calls' = next_calls + 1 /\ gen'.status = "raised") =>
           pattern' = pattern /\ frame_data' = frame_data
    /\ (gen'.op = "generate_frame" /\ gen' # gen) =>
           pattern' = pattern /\ fixtures' = fixtures
    /\ (pattern.kind # "none" /\ next_calls' = 0) =>
           pattern' = [pattern EXCEPT !.step = 0]
StepCountsReturnedCalls ==
    [](pattern.kind # "none" /\ ~GenerateRaises(pattern) => pattern.step = next_calls)
        /\ [][PatternStepReturned]_vars
ThirdNextFrameAfterReset ==
    /\ gen.op = "next_frame" /\ gen.status = "ok" /\ gen.pattern.kind = "chase"
    /\ next_calls = 3 /\ pattern.step = 3 /\ gen.pattern.step = 2
    /\ gen.pattern.total_pixels = 3 /\ gen.pattern.color = <<1, 2, 3>>
    /\ frame_data = <<0, 0, 0, 0, 0, 0, 1, 2, 3>>

\* ---------------------------------------------------------------------
\* Frame buffers
\* ---------------------------------------------------------------------
IsByteFrame(frame, total_pixels) ==
    /\ Len(frame) = 3 * total_pixels
    /\ \A i \in 1..Len(frame) : frame[i] \in 0..255

\* C12: every frame produced by any of the five generators, at every step and
\* for every parameter setting, has length exactly 3 x total_pixels and every
\* element is an integer in 0..255; in particular for Wave, for every
\* amplitude and base color.
C12_FramesAreBytes ==
    gen.status = "ok" => IsByteFrame(frame_data, gen.pattern.total_pixels)

\* What holds: the same when total_pixels is not negative and the Wave
\* amplitude is at most 0.5.
FramesAreBytesUpToHalfAmplitude ==
    (/\ gen.status = "ok"
     /\ gen.pattern.total_pixels >= 0
     /\ gen.pattern.kind = "wave" =>
            2 * gen.pattern.amplitude[1] <= gen.pattern.amplitude[2])
        => IsByteFrame(frame_data, gen.pattern.total_pixels)
WaveFullAmplitude ==
    /\ FrameOf("wave") /\ gen.pattern.amplitude = <<1, 1>>
    /\ gen.pattern.color = WHITE
    /\ gen.pattern.total_pixels = 3 /\ gen.pattern.step = 0
    /\ frame_data = <<127, 127, 127, 348, 348, 348, -93, -93, -93>>

(***************************************************************************)
(* The controller: one pattern run over a registry, stopped by its         *)
(* duration, by the user or by an error, then switched off and closed.     *)
(***************************************************************************)
RunRegistries ==
    { <<>>,
      <<Fixture("192.168.1.100", 2, 100, "None")>>,
      <<Fixture("192.168.1.100", 1, 100, "None"), Fixture("10.0.2.5", 2, 5, "None")>>,
      <<Fixture("192.168.1.100", 0, 100, "None")>>,
      <<Fixture("192.168.1.100", -1, 100, "None"), Fixture("10.0.2.5", 3, 5, "None")>> }

InitRun ==
    /\ fixtures \in RunRegistries
    /\ added = NotAdded
    /\ disc = NoDiscovery
    /\ pattern = NoPattern
    /\ frame_data = <<>>
    /\ gen = [op |-> "none", pattern |-> NoPattern, status |-> "none"]
    /\ sliced = [called |-> FALSE, frame |-> <<>>, fixtures |-> <<>>]
    /\ fixtures_data = <<>>
    /\ sock = "None"
    /\ os_sockets = 0
    /\ pc = "idle"
    /\ call = [op |-> "none"]
    /\ outcomes = <<>>
    /\ wire = <<>>
    /\ ret = "none"
    /\ next_calls = 0
    /\ ctl = <<>>
    /\ run = NoRun
    /\ now = 0
    /\ cret = NoneEnded

\* duration: None, 0 and two frame delays
Durations == {<<>>, <<0>>, <<2>>}

NextRun ==
    \/ pattern = NoPattern /\ MakePattern("chase", [color |-> <<1, 2, 3>>])
    \/ /\ pattern.kind # "none" /\ run.status = "none"
       /\ AddFixture("10.0.2.5", 2, "None", 5)
    \/ \E duration \in Durations, callback \in BOOLEAN : RunPattern(duration, callback)
    \/ \E sock_ok \in BOOLEAN : RunTick(sock_ok)
    \/ \E net_ok \in BOOLEAN : SmfSend(net_ok)
    \/ SmfReturn
    \/ \E cb_ok \in BOOLEAN : RunAfterSend(cb_ok)
    \/ RunWake
    \/ Elapse
    \/ KeyboardInterrupt
    \/ \E sock_ok \in BOOLEAN : StopAllFixtures(sock_ok)
    \/ \E sock_ok \in BOOLEAN : ControllerClose(sock_ok)
    \/ StopAfterSend

SpecRun == InitRun /\ [][NextRun]_vars

Zeros(n) == [i \in 1..n |-> 0]

\* What stop_all_fixtures handed to the sender: one entry per fixture of the
\* registry, in order, each an all-zero payload of the fixture's channel
\* count, together the black frame of 3 x total_pixels bytes; and each entry
\* was given to the socket once.
StopSentBlack ==
    /\ cret.sends = 1
    /\ call.op = "send_multiple_fixtures"
    /\ Len(call.batch) = Len(cret.fixtures)
    /\ ConcatSlices(call.batch) = Zeros(3 * SumPixels(cret.fixtures))
    /\ Len(ConcatSlices(call.batch)) = 3 * SumPixels(cret.fixtures)
    /\ \A k \in 1..Len(call.batch) :
          /\ call.batch[k].fixture = cret.fixtures[k]
          /\ Len(call.batch[k].pixel_data) = ChannelCount(cret.fixtures[k])
          /\ call.batch[k].pixel_data = Zeros(ChannelCount(cret.fixtures[k]))
    /\ Len(outcomes) = Len(call.batch)
    /\ \A k \in 1..Len(outcomes) : outcomes[k] \in {"sent", "send_error"}

\* C13: stop_all_fixtures on a non-empty registry builds the black frame of
\* 3 x total_pixels zero bytes and sends it exactly once, one packet per
\* registered fixture, each an all-zero payload of that fixture's channel
\* count; on an empty registry it sends nothing.
C13_StopSendsBlackOnce ==
    (cret.op = "stop_all_fixtures") =>
        /\ cret.status = "returned"
        /\ IF cret.fixtures = <<>> THEN cret.sends = 0 ELSE StopSentBlack

\* What holds: the same when stop_all_fixtures returns and no pixel count in
\* the registry is negative.
StopSendsBlackWhenItReturns ==
    (/\ cret.op = "stop_all_fixtures"
     /\ cret.status = "returned"
     /\ \A k \in 1..Len(cret.fixtures) : cret.fixtures[k].pixel_count >= 0)
        => IF cret.fixtures = <<>> THEN cret.sends = 0 ELSE StopSentBlack
StopTwoFixtures ==
    /\ cret.op = "stop_all_fixtures" /\ cret.status = "returned"
    /\ Len(cret.fixtures) = 2
    /\ Len(wire) = 2
    /\ wire[1].ip = "192.168.1.100" /\ Len(wire[1].data) = HeaderLen + 3
    /\ wire[2].ip = "10.0.2.5" /\ Len(wire[2].data) = HeaderLen + 6

\* C14: add_fixture fails when pixel_count <= 0 and leaves the registry
\* unchanged, so no fixture with a non-positive pixel count is ever in the
\* registry.
C14_RejectsNonPositivePixelCount ==
    \A k \in 1..Len(fixtures) : fixtures[k].pixel_count > 0

\* C15: a universe outside 0..32767 is rejected and never masked: a send call
\* given one fails, and no datagram is sent whose header universe differs
\* from the universe the caller supplied.
C15_RejectsUniverseOutOfRange ==
    /\ \A i \in 1..Len(wire) :
          /\ InputOf(wire[i]).universe \in 0..32767
          /\ DecodeUniverse(wire[i].data) = InputOf(wire[i]).universe
    /\ (call.op = "send_dmx_data" /\ call.universe \notin 0..32767) => ret = "False"

\* C16: with a duration given, the loop stops at the end of the first tick
\* at which the time since loop start is >= duration, without sleeping again,
\* and at least one frame was sent before: while the run goes on after a
\* tick, the time at that tick's check was below the duration.
C16_StopsWhenDurationElapsed ==
    (run.status # "none" /\ run.duration # <<>>) =>
        /\ (run.status = "running" /\ run.frame_count > 0) =>
               run.elapsed < run.duration[1]
        /\ (run.stopped_by = "duration") =>
               /\ run.elapsed >= run.duration[1]
               /\ run.frame_count >= 1
               /\ run.at = "sending"

\* What holds: the same for a duration other than 0.
StopsWhenNonZeroDurationElapsed ==
    (run.status # "none" /\ run.duration # <<>> /\ run.duration[1] # 0) =>
        /\ (run.status = "running" /\ run.frame_count > 0) =>
               run.elapsed < run.duration[1]
        /\ (run.stopped_by = "duration") =>
               /\ run.elapsed >= run.duration[1]
               /\ run.frame_count >= 1
               /\ run.at = "sending"
DurationTwoStops ==
    /\ run.status = "returned" /\ run.stopped_by = "duration"
    /\ run.duration = <<2>> /\ run.elapsed = 2 /\ run.frame_count = 3

\* C17: a user interrupt never causes a partial batch: when the run was
\* stopped by an interrupt, run_pattern returned normally and every fixture
\* of the tick's batch had been sent.
C17_NoPartialBatchOnInterrupt ==
    (run.status # "none" /\ run.stopped_by = "interrupt") =>
        /\ run.status = "returned"
        /\ run.unsent = 0

\* What holds: an interrupt ends the run by a normal return, and one that
\* arrives between two ticks finds the batch complete.
InterruptReturnsNormally ==
    (run.status # "none" /\ run.stopped_by = "interrupt") =>
        /\ run.status = "returned"
        /\ run.at \in {"tick", "sleeping"} => run.unsent = 0
InterruptWhileSleeping ==
    /\ run.status = "returned" /\ run.stopped_by = "interrupt"
    /\ run.at = "sleeping" /\ run.frame_count = 2 /\ Len(outcomes) = 2

\* C18: an error raised during one tick by the callback or by a send is
\* logged and the loop goes on; it does not end run_pattern.
C18_TickErrorDoesNotStopRun ==
    run.status # "none" =>
        ~(run.status = "raised" /\ run.stopped_by \in {"callback_error", "send_error"})

\* What holds: a sendto that fails does not end the run.
SendtoErrorKeepsRunning ==
    (/\ ctl = <<"run_pattern">> /\ pc = "idle" /\ run.at = "sending"
     /\ \E k \in 1..Len(outcomes) : outcomes[k] = "send_error")
        => (run.status = "running" /\ ret = "False")
SecondTickAfterSendtoError ==
    /\ ctl = <<"run_pattern">> /\ run.status = "running" /\ run.at = "tick"
    /\ run.frame_count = 1 /\ ret = "False"
    /\ \E k \in 1..Len(outcomes) : outcomes[k] = "send_error"

\* C19: slicing a frame whose length is not 3 x totalPixels() of the registry
\* fails: the run is aborted, no packet of that tick is sent and the failure
\* reaches the caller of run_pattern.
C19_MismatchedFrameAbortsRun ==
    (/\ run.status # "none"
     /\ sliced.called
     /\ Len(sliced.frame) # 3 * SumPixels(sliced.fixtures))
        => (run.status = "raised" /\ run.at = "tick")

\* What holds: the frame has the registry's length when the registry was not
\* changed after the pattern was built and holds no negative pixel count.
FrameMatchesUnchangedRegistry ==
    (/\ sliced.called
     /\ gen.pattern.total_pixels = SumPixels(sliced.fixtures)
     /\ gen.pattern.total_pixels >= 0)
        => Len(sliced.frame) = 3 * SumPixels(sliced.fixtures)
FixtureAddedAfterPattern ==
    /\ run.status = "running" /\ run.at = "sending" /\ pc = "idle"
    /\ gen.pattern.total_pixels = 2 /\ Len(fixtures) = 2
    /\ Len(sliced.frame) = 6
    /\ Len(wire) = 2
    /\ Len(wire[1].data) = HeaderLen + 6 /\ Len(wire[2].data) = HeaderLen

\* C20: after ArtNetController.close() has returned or raised, however the
\* run ended and whether or not the final black send failed, the sender
\* holds no open socket.
C20_SocketReleasedOnClose ==
    (cret.op = "close") => (sock = "None" /\ os_sockets = 0)

\* What holds: the same when no interrupt arrives while close() runs.
SocketReleasedUnlessInterrupted ==
    (cret.op = "close" /\ cret.cause # "interrupt") =>
        (sock = "None" /\ os_sockets = 0)
ClosedAfterFailedBlackSend ==
    /\ cret.op = "close" /\ cret.status = "returned"
    /\ run.status = "returned" /\ run.stopped_by = "duration"
    /\ \E k \in 1..Len(outcomes) : outcomes[k] = "send_error"
    /\ sock = "None" /\ os_sockets = 0

\* round(x) of a float x >= 0: the nearest integer, a tie going to the even
\* one.
PyRound(x) ==
    LET n == x[FracLimbs] + Base * x[FracLimbs + 1]
        top == x[FracLimbs - 1]
        rest == \E j \in LimbIdx : j < FracLimbs - 1 /\ x[j] # 0
        half == Base \div 2
    IN  IF top > half \/ (top = half /\ rest) THEN n + 1
        ELSE IF top = half THEN (IF n % 2 = 0 THEN n ELSE n + 1)
        ELSE n

\* component x 255 for channel c (1..3) of pixel i of the Rainbow frame of
\* pattern state p
RainbowScaled(p, i, c) == FloatMul(HsvComponents(RainbowHue(p, i))[c], 255)

\* C27: each channel of a Rainbow frame is round(component x 255), where
\* component is the HSV-to-RGB result for the pixel's hue at full saturation
\* and value.
C27_RainbowChannelsRounded ==
    (gen.status = "ok" /\ gen.pattern.kind = "rainbow") =>
        \A i \in 0..(gen.pattern.total_pixels - 1) : \A c \in 1..3 :
            frame_data[3 * i + c] = PyRound(RainbowScaled(gen.pattern, i, c))

\* What holds: each channel is that product cut down to an integer, which is
\* round(component x 255) or one less.
RainbowChannelsAtMostOneBelow ==
    (gen.status = "ok" /\ gen.pattern.kind = "rainbow") =>
        \A i \in 0..(gen.pattern.total_pixels - 1) : \A c \in 1..3 :
            LET rounded == PyRound(RainbowScaled(gen.pattern, i, c))
            IN  /\ frame_data[3 * i + c] \in {rounded - 1, rounded}
                /\ frame_data[3 * i + c] \in 0..255
RainbowHalfCutDown ==
    /\ gen.status = "ok" /\ gen.pattern.kind = "rainbow"
    /\ gen.pattern.total_pixels = 4 /\ gen.pattern.step = 0
    /\ SubSeq(frame_data, 4, 6) = <<127, 255, 0>>
    /\ PyRound(RainbowScaled(gen.pattern, 1, 1)) = 128

\* The ticks a run has begun.
Ticks(r) == IF r.status = "none" THEN 0 ELSE r.ticks
FrameCount(r) == IF r.status = "none" THEN 0 ELSE r.frame_count

\* The order of the steps of a tick: a frame is generated only between
\* ticks, when no send is in progress and the tick before has got through
\* its send and its callback; packets are sent only between the generation
\* and the callback; the callback and the duration check come once the send
\* has returned; the sleep begins with the step that made the check.
TickOrder ==
    /\ (Ticks(run') > Ticks(run)) =>
           /\ pc = "idle" /\ run.at = "tick"
           /\ Ticks(run) = run.frame_count
           /\ gen'.op = "next_frame" /\ sliced'.frame = frame_data'
    /\ (ctl = <<"run_pattern">> /\ Len(outcomes') > Len(outcomes)) =>
           (run.at = "sending" /\ Ticks(run) = run.frame_count + 1)
    /\ (FrameCount(run') > FrameCount(run)) =>
           /\ pc = "idle" /\ ret \in {"True", "False"}
           /\ run.at = "sending" /\ Len(outcomes) = Len(call.batch)
    /\ (ctl = <<"run_pattern">> /\ run.at # "sleeping" /\ ctl' = ctl
          /\ run'.at = "sleeping") =>
           FrameCount(run') > FrameCount(run)

\* The batch of the tick whose send has just returned: one entry per fixture
\* of the registry, in registry order, each with the payload `slice` gives
\* for it; every entry was handed to the socket once, in that order.
BatchOfTick(slice(_)) ==
    /\ call.op = "send_multiple_fixtures"
    /\ Len(call.batch) = Len(fixtures)
    /\ frame_data = GenerateFrameOf([pattern EXCEPT !.step = @ - 1])
    /\ \A k \in 1..Len(fixtures) :
          /\ call.batch[k].fixture = fixtures[k]
          /\ call.batch[k].pixel_data = slice(k)
    /\ Len(outcomes) = Len(fixtures)
    /\ \A j \in 1..Len(wire) :
          /\ wire[j].ip = fixtures[wire[j].entry].ip
          /\ SubSeq(wire[j].data, HeaderLen + 1, Len(wire[j].data))
                 = call.batch[wire[j].entry].pixel_data
          /\ j > 1 => wire[j - 1].entry < wire[j].entry
    /\ \A k \in 1..Len(fixtures) :
          (outcomes[k] = "sent") <=> (\E j \in 1..Len(wire) : wire[j].entry = k)

\* What get_fixture_data cuts out of the frame for fixture k: the bytes of
\* the fixture's pixels, which follow those of the fixtures before it.
PySliceOfFixture(k) ==
    PySlice(frame_data, 3 * PixelOffset(fixtures, k),
            3 * (PixelOffset(fixtures, k) + fixtures[k].pixel_count))

SendReturnedInTick ==
    ctl = <<"run_pattern">> /\ pc = "idle" /\ run.at = "sending"

InvocationOfTick(k) ==
    LET inv == run.callbacks[k]
    IN  /\ inv.frame_count = k
        /\ inv.step = run.start_step + k
        /\ inv.frame_data =
               GenerateFrameOf([pattern EXCEPT !.step = run.start_step + k - 1])
        /\ inv.fixtures_data = SliceFrom(run.registry, 0, inv.frame_data)
        /\ inv.batch = inv.fixtures_data
        /\ inv.attempted = Len(inv.batch)

\* C29: during run_pattern the callback is invoked once per tick, after the
\* tick's batch send, with a frame counter equal to the number of batches
\* sent so far in the run (1 on the first tick, one more on each), the frame
\* and the payloads just sent; at every invocation the pattern's step has
\* advanced by that counter since the run began.  Whenever the run goes on
\* to its next tick, every tick so far has had its invocation.
C29_CallbackOncePerTick ==
    (run.status # "none" /\ run.callback) =>
        /\ \A k \in 1..Len(run.callbacks) : InvocationOfTick(k)
        /\ Len(run.callbacks) = run.frame_count
        /\ (run.status = "running" /\ run.at \in {"tick", "sleeping"}) =>
               Len(run.callbacks) = run.ticks
C29_Witness ==
    /\ run.status = "returned" /\ run.stopped_by = "duration" /\ run.callback
    /\ Len(run.callbacks) = 3 /\ run.callbacks[3].frame_count = 3
    /\ run.callbacks[3].step = 3 /\ pattern.step = 3
    /\ Len(run.callbacks[3].batch) = 2

\* C30: run_pattern called on an empty registry returns at once: no frame
\* is generated, the pattern's step is not advanced, nothing is sent and the
\* callback is not invoked.
C30_EmptyRegistryReturnsAtOnce ==
    /\ []((run.status # "none" /\ run.registry = <<>>) =>
              /\ run.status = "returned" /\ run.stopped_by = "no_fixtures"
              /\ run.ticks = 0 /\ run.frame_count = 0 /\ run.callbacks = <<>>
              /\ gen.op = "none" /\ next_calls = 0
              /\ pattern.step = run.start_step
              /\ wire = <<>> /\ call.op = "none" /\ os_sockets = 0)
    /\ [][(run.status = "none" /\ run'.status # "none" /\ fixtures = <<>>) =>
              /\ UNCHANGED <<registryVars, patternVars, senderVars, ctl>>
              /\ cret' = Ended("run_pattern", "returned", "none", <<>>, 0)]_vars
C30_Witness ==
    /\ run.status = "returned" /\ run.stopped_by = "no_fixtures"
    /\ run.registry = <<>> /\ run.callback /\ run.duration = <<2>>
    /\ cret.op = "run_pattern" /\ pattern.kind = "chase" /\ pattern.step = 0

\* What one step of the sender does to its socket.
SocketStep ==
    /\ (os_sockets' > os_sockets) =>
           /\ sock = "None" /\ os_sockets = 0
           /\ sock' = "open" /\ os_sockets' = 1
           /\ call'.op \in {"send_dmx_data", "send_multiple_fixtures"}
    /\ (sock = "open" /\ call'.op # "close") =>
           (sock' = "open" /\ os_sockets' = os_sockets)
    /\ (call'.op = "close") => (sock' = "None" /\ os_sockets' = 0)

\* C23: after any sequence of send_dmx_data, send_multiple_fixtures and close
\* calls the sender owns at most one open socket, the one it holds: a socket
\* is created only by a send while none is held, a send while one is held
\* keeps it, close releases it and leaves the sender with none, also when
\* none was held, and the next send creates exactly one.
C23_AtMostOneSocket ==
    /\ [](os_sockets \in {0, 1} /\ (sock = "open" <=> os_sockets = 1))
    /\ [][SocketStep]_vars
C23_Witness ==
    /\ call.op = "close" /\ call.released
    /\ sock = "None" /\ os_sockets = 0

\* C28 as stated: every datagram handed to the socket is a fixed 12-byte
\* header followed by the payload, so its length is 12 + len(payload).
C28_HeaderIsTwelveBytes ==
    \A i \in 1..Len(wire) :
        Len(wire[i].data) = 12 + Len(InputOf(wire[i]).pixel_data)

\* C28, amended: every datagram handed to the socket is a fixed 18-byte
\* header (8 + 2 + 2 + 1 + 1 + 1 + 1 + 2 bytes) followed by the payload, so
\* its length is 18 + len(payload), for every payload.
C28_HeaderIsEighteenBytes ==
    \A i \in 1..Len(wire) :
        LET data == wire[i].data
            payload == InputOf(wire[i]).pixel_data
        IN  /\ Len(data) = 18 + Len(payload)
            /\ SubSeq(data, 19, Len(data)) = payload
            /\ SubSeq(data, 1, 14) = SubSeq(StructPack(0, 0, 0), 1, 14)
C28_Witness ==
    /\ Len(wire) = 2
    /\ Len(InputOf(wire[1]).pixel_data) = 6 /\ Len(wire[1].data) = 24
    /\ Len(InputOf(wire[2]).pixel_data) = 513 /\ Len(wire[2].data) = 531

(***************************************************************************)
(* The registry on its own: fixtures added by hand under every kind of     *)
(* address, discovery with every kind of reply, and clear.                 *)
(***************************************************************************)
Addresses ==
    {"192.168.1.100", "10.0.2.5", "not-an-ip", "wled-1.local", "10.0.0.", "7",
     "10.0.0.+5", "172.16.0.1_0", "10.0.0.-4", "10.0.0.0x1F"}

\* add_fixture arguments <<ip, pixel_count, universe>>: every address without
\* a universe, two with one, and the pixel counts around 512 / 3.
AddInputs ==
    {<<ip, 1, <<>>>> : ip \in Addresses}
        \cup {<<"192.168.1.100", 1, <<7>>>>, <<"not-an-ip", 1, <<0>>>>}
        \cup {<<"10.0.2.5", n, <<>>>> : n \in {170, 171}}

\* Replies <<addr[0], data>>
Replies ==
    {<<"192.168.1.100", data>> :
        data \in {BadBytes, BadText, Json(JArray),
                  Json(JObject("strip", JAbsent)),
                  Json(JObject("None", JLeds(<<>>))),
                  Json(JObject("None", JLeds(<<200>>))),
                  Json(JObject("None", JNumber))}}
        \cup {<<"10.0.2.5", Json(JObject("None", JLeds(<<2>>)))>>}

\* Fixtures are added by hand until the registry is cleared or the one
\* discovery starts, on an empty registry or on a registry of one fixture;
\* one more fixture is added after the discovery.
NextRegistry ==
    \/ \E in \in AddInputs :
            /\ disc.op = "none" /\ (added.called => fixtures # <<>>)
            /\ AddFixtureCall(in[1], in[2], "None", in[3])
    \/ disc.at = "idle" /\ disc.op # "none" /\ fixtures # <<>>
            /\ AddFixtureCall("wled-1.local", 2, "None", <<>>)
    \/ fixtures # <<>> /\ Clear
    \/ \E op \in {"discover_devices", "discover_fixtures"}, net_ok \in BOOLEAN :
            /\ disc.op = "none"
            /\ \/ ~added.called
               \/ Len(fixtures) = 1 /\ added.ip = "wled-1.local"
            /\ DiscoverStart(op, net_ok)
    \/ \E r \in Replies : DiscoverRecv(r[1], r[2])
    \/ disc.recv_errors = 0 /\ DiscoverRecvError
    \/ DiscoverEnd

SpecRegistry == Init /\ [][NextRegistry]_vars

\* A reply no device can be built from: it does not decode to a JSON object
\* whose 'leds' member, when present, is an object.
Malformed(data) ==
    ~JsonLoads(data).ok \/ InfoRaises(JsonLoads(data).info)

RECURSIVE WellFormedOf(_)
WellFormedOf(replies) ==
    IF replies = <<>> THEN <<>>
    ELSE (IF Malformed(replies[1].data) THEN <<>>
          ELSE <<[ip |-> replies[1].ip, info |-> JsonLoads(replies[1].data).info]>>)
             \o WellFormedOf(Tail(replies))

RECURSIVE DecodableOf(_)
DecodableOf(replies) ==
    IF replies = <<>> THEN <<>>
    ELSE (IF ~JsonLoads(replies[1].data).ok THEN <<>>
          ELSE <<[ip |-> replies[1].ip, info |-> JsonLoads(replies[1].data).info]>>)
             \o DecodableOf(Tail(replies))

\* C21: no network error during discovery reaches the caller: neither
\* discover_devices nor discover_fixtures raises, a failure of the network
\* gives zero devices, and the list built holds exactly the well-formed
\* replies, in the order they came, whatever malformed replies and receive
\* errors came between them.
C21_DiscoveryNeverRaises ==
    /\ disc.status # "raised"
    /\ disc.discovered = WellFormedOf(disc.replies)

\* What holds: once the broadcast is sent discover_devices does not raise,
\* and a reply that is not UTF-8 or not JSON is skipped while every reply
\* that decodes is collected, before and after it.
DiscoverySkipsUndecodableReplies ==
    /\ (disc.status = "raised") =>
           (disc.cause = "network" \/ disc.op = "discover_fixtures")
    /\ disc.discovered = DecodableOf(disc.replies)
CollectedAfterBadReply ==
    /\ disc.op = "discover_devices" /\ disc.status = "returned"
    /\ Len(disc.replies) = 3 /\ disc.replies[1].data = BadText
    /\ disc.recv_errors >= 1
    /\ Len(disc.discovered) = 2

\* C24: every fixture in the registry has channel_count = pixel_count x 3 and
\* channel_count <= 512: add_fixture rejects a pixel count above 170.
C24_ChannelCountWithinUniverse ==
    \A k \in 1..Len(fixtures) :
        /\ ChannelCount(fixtures[k]) = fixtures[k].pixel_count * 3
        /\ ChannelCount(fixtures[k]) <= 512

\* The universe Python computes for each address: int(ip.split('.')[-1]) where
\* that is defined (<<>> where it raises ValueError).
LastComponentInt ==
    [ip \in Addresses |->
        CASE ip = "192.168.1.100" -> <<100>>
          [] ip = "10.0.2.5" -> <<5>>
          [] ip = "7" -> <<7>>
          [] ip = "10.0.0.+5" -> <<5>>
          [] ip = "172.16.0.1_0" -> <<10>>
          [] ip = "10.0.0.-4" -> <<0 - 4>>
          [] OTHER -> <<>>]

\* C25: add_fixture without a universe gives the fixture the integer value
\* of the last dot-delimited component of its address, or, when that is not
\* an integer, the number of fixtures in the registry before the call;
\* a universe that is supplied is used unchanged.
C25_UniverseFromAddress ==
    added.called =>
        /\ added.fixture.ip = added.ip
        /\ added.universe # <<>> => added.fixture.universe = added.universe[1]
        /\ added.universe = <<>> =>
               added.fixture.universe =
                   IF LastComponentInt[added.ip] # <<>>
                   THEN LastComponentInt[added.ip][1]
                   ELSE Len(added.before)
C25_Witness ==
    /\ added.called /\ added.universe = <<>>
    /\ added.ip = "10.0.0.0x1F" /\ Len(added.before) = 2
    /\ added.before[2].universe = 10
    /\ added.fixture.universe = 2

\* A step keeps every fixture of the registry where and as it was.
KeepsFixtures ==
    /\ Len(fixtures') >= Len(fixtures)
    /\ \A k \in 1..Len(fixtures) : fixtures'[k] = fixtures[k]

RECURSIVE SumOfPixelCounts(_, _)
SumOfPixelCounts(fs, k) ==
    IF k = 0 THEN 0 ELSE SumOfPixelCounts(fs, k - 1) + fs[k].pixel_count

\* C26: a fixture stays in the registry at its position and with its address,
\* pixel count and universe until the registry is cleared: every step other
\* than clear keeps every fixture, and get_total_pixels is always the sum of
\* the pixel counts.
C26_FixturesStayUntilCleared ==
    /\ [](GetTotalPixels = SumOfPixelCounts(fixtures, Len(fixtures)))
    /\ [][Clear \/ KeepsFixtures]_vars

\* What holds: the same of every step that is not the end of
\* discover_fixtures.
FixturesStayExceptInDiscovery ==
    /\ [](GetTotalPixels = SumOfPixelCounts(fixtures, Len(fixtures)))
    /\ [][Clear \/ DiscoverEnd \/ KeepsFixtures]_vars
DiscoveryReplacedRegistry ==
    /\ disc.op = "discover_fixtures" /\ disc.status = "returned"
    /\ Len(disc.before) = 1 /\ disc.before[1].ip = "wled-1.local"
    /\ Len(fixtures) = 1 /\ fixtures[1].ip = "10.0.2.5"

\* ---------------------------------------------------------------------
\* The controller as a whole: registry, pattern and sender together.
\* ---------------------------------------------------------------------
Next == NextSender \/ NextSlice \/ NextPattern \/ NextRun \/ NextRegistry

Spec == Init /\ [][Next]_vars

====
